---- MODULE Spec2Model ----
(***************************************************************************)
(* Authentication / authorization gate and embed rate limiter of the       *)
(* auth-menu-power-pwa back end (auth-server/server.ts).                   *)
(*                                                                         *)
(* Time is Date.now() in milliseconds.  Strings are TLA+ strings; a field  *)
(* that is absent in a JavaScript object is absent from the record's       *)
(* DOMAIN.                                                                 *)
(***************************************************************************)
EXTENDS Integers, Sequences, FiniteSets, TLC

(***************************************************************************)
(* Bounds of the model                                                     *)
(***************************************************************************)
MaxTokens == 2      \* session tokens remembered by clients
MaxTtls == 1        \* clock instants reach MaxTtls token lifetimes
MaxWindows == 1     \* clock instants reach MaxWindows rate windows
MaxSkew == 1        \* each instant also occurs MaxSkew milliseconds later
MaxCalls == 12      \* rate-limiter calls per key that the history follows
MaxInflight == 2    \* requests suspended at an await at the same time

(***************************************************************************)
(* Program constants                                                       *)
(***************************************************************************)
EMBED_RATE_LIMIT == 10
EMBED_RATE_WINDOW == 60 * 1000
JWT_EXPIRES_IN == 7200                 \* expiresIn: '2h', in seconds
JWT_SECRET == "JWT_SECRET"

Null == [null |-> TRUE]                \* undefined / nothing

(***************************************************************************)
(* JavaScript helpers                                                      *)
(***************************************************************************)
Upper == "ABCDEFGHIJKLMNOPQRSTUVWXYZ"
Lower == "abcdefghijklmnopqrstuvwxyz"

\* the lower-case letter of each upper-case one
LowerOf ==
  [c \in {SubSeq(Upper, i, i) : i \in 1..Len(Upper)} |->
     LET i == CHOOSE j \in 1..Len(Upper) : SubSeq(Upper, j, j) = c
     IN  SubSeq(Lower, i, i)]

LowerChar(c) == IF c \in DOMAIN LowerOf THEN LowerOf[c] ELSE c

\* String.prototype.toLowerCase, character by character
RECURSIVE toLowerCase(_)
toLowerCase(s) ==
  IF s = "" THEN ""
  ELSE LowerChar(SubSeq(s, 1, 1)) \o toLowerCase(SubSeq(s, 2, Len(s)))

\* obj.f || dflt   (string-valued fields)
OrElse(obj, f, dflt) == IF f \in DOMAIN obj /\ obj[f] # "" THEN obj[f] ELSE dflt

(***************************************************************************)
(* jsonwebtoken: HS256 signature, sign with expiresIn, verify              *)
(***************************************************************************)
\* the signature covers the whole claim set and depends on the key
HS256(payload, secret) == <<payload, secret>>

jwtSign(claims, secret, t) ==
  LET payload == claims @@ [iat |-> t \div 1000, exp |-> (t \div 1000) + JWT_EXPIRES_IN]
  IN  [payload |-> payload, sig |-> HS256(payload, secret)]

\* faulty variant: the decoded payload loses its name claim
jwtVerify_noName(token, secret, t) ==
  IF "payload" \notin DOMAIN token THEN [err |-> "jwt malformed"]
  ELSE IF token.sig # HS256(token.payload, secret) THEN [err |-> "invalid signature"]
  ELSE IF (t \div 1000) >= token.payload.exp THEN [err |-> "jwt expired"]
  ELSE [decoded |-> [f \in DOMAIN token.payload \ {"name"} |-> token.payload[f]]]

\* faulty variant: a token is still good in the second of its expiry
jwtVerify_graceSecond(token, secret, t) ==
  IF "payload" \notin DOMAIN token THEN [err |-> "jwt malformed"]
  ELSE IF token.sig # HS256(token.payload, secret) THEN [err |-> "invalid signature"]
  ELSE IF (t \div 1000) > token.payload.exp THEN [err |-> "jwt expired"]
  ELSE [decoded |-> token.payload]

\* result of jwt.verify: [err |-> reason] or [decoded |-> payload]
jwtVerify(token, secret, t) ==
  IF "payload" \notin DOMAIN token THEN [err |-> "jwt malformed"]
  ELSE IF token.sig # HS256(token.payload, secret) THEN [err |-> "invalid signature"]
  ELSE IF (t \div 1000) >= token.payload.exp THEN [err |-> "jwt expired"]
  ELSE [decoded |-> token.payload]

(***************************************************************************)
(* Credential registry                                                     *)
(***************************************************************************)
userDatabase ==
  << [email |-> "admin@samunnati.com", phone |-> "", department |-> "Admin",
      password |-> "admin123", isAdmin |-> TRUE],
     [email |-> "bhavya.khatri@gmail.com", phone |-> "9991110003", department |-> "Finance",
      password |-> "password123", isAdmin |-> FALSE] >>

(***************************************************************************)
(* State                                                                   *)
(***************************************************************************)
VARIABLES
  now,                 \* Date.now()
  issued,              \* tokens handed to clients so far: [token, via, claims, at]
  reportsData,         \* contents of reports-data.json
  embedRequestCounts,  \* Map<email, {count, resetTime}>
  calls,               \* history of the limiter calls per key
  inflight,            \* requests suspended at an await, oldest first
  resp                 \* response to the request handled by the latest step

vars == <<now, issued, reportsData, embedRequestCounts, calls, inflight, resp>>

NoResponse == [route |-> "", status |-> 0]

InitialReports ==
  [d \in {"Finance", "Sales"} |->
     IF d = "Finance" THEN << [id |-> "r1", isActive |-> TRUE], [id |-> "r2", isActive |-> FALSE] >>
     ELSE << [id |-> "r3", isActive |-> TRUE] >>]

Init ==
  /\ now = 0
  /\ issued = {}
  /\ reportsData = InitialReports
  /\ embedRequestCounts = << >>
  /\ calls = << >>
  /\ inflight = << >>
  /\ resp = NoResponse

(***************************************************************************)
(* Clock                                                                   *)
(***************************************************************************)
Instants(ws, hs) ==
  { w * EMBED_RATE_WINDOW + h * JWT_EXPIRES_IN * 1000 + d :
      w \in 0..ws, h \in 0..hs, d \in {0, MaxSkew} }

\* the clock advances between two steps of the server
Tick(instants) ==
  /\ resp = NoResponse
  /\ \E t \in instants : t > now /\ now' = t
  /\ UNCHANGED <<issued, reportsData, embedRequestCounts, calls, inflight, resp>>

\* the response written by the latest step leaves the server
Deliver ==
  /\ resp # NoResponse
  /\ resp' = NoResponse
  /\ UNCHANGED <<now, issued, reportsData, embedRequestCounts, calls, inflight>>

\* a client stores the token it was sent (bounded memory of the clients),
\* together with the claims that were handed to jwt.sign and Date.now() then
Remember(token, via, claims) ==
  LET e == [token |-> token, via |-> via, claims |-> claims, at |-> now]
  IN  IF e \in issued \/ Cardinality(issued) < MaxTokens THEN issued \cup {e} ELSE issued

(***************************************************************************)
(* POST /auth/manual-login                                                 *)
(***************************************************************************)
\* faulty variant: compares the password without regard to case
RECURSIVE find_anyCasePassword(_, _, _)
find_anyCasePassword(db, identifier, password) ==
  IF db = << >> THEN Null
  ELSE LET u == Head(db) IN
       IF /\ toLowerCase(u.email) = identifier \/ u.phone = identifier
          /\ password # << >>
          /\ toLowerCase(u.password) = toLowerCase(password[1])
         THEN u
         ELSE find_anyCasePassword(Tail(db), identifier, password)

\* Array.prototype.find: first element satisfying the predicate, else Null
\* password is << >> when the body has none, else <<the password>>
RECURSIVE find(_, _, _)
find(db, identifier, password) ==
  IF db = << >> THEN Null
  ELSE LET u == Head(db) IN
       IF (toLowerCase(u.email) = identifier \/ u.phone = identifier) /\ <<u.password>> = password
         THEN u
         ELSE find(Tail(db), identifier, password)

\* (email || phone || '').toLowerCase()
Identifier(body) == toLowerCase(OrElse(body, "email", OrElse(body, "phone", "")))

\* faulty variant: tells an unknown identifier from a wrong password
loginRejected_enumerating(identifier) ==
  IF \E i \in 1..Len(userDatabase) : toLowerCase(userDatabase[i].email) = identifier
    THEN [status |-> 401, body |-> "Wrong password"]
    ELSE [status |-> 404, body |-> "User not found"]

\* res.status(401).json({ error: 'Invalid credentials' })
loginRejected(identifier) == [status |-> 401, body |-> "Invalid credentials"]

\* the claims signed for the matched registry entry
loginClaims(user) ==
  [email |-> user.email, department |-> user.department, isAdmin |-> user.isAdmin]

ManualLogin(body) ==
  LET identifier == Identifier(body)
      password == IF "password" \in DOMAIN body THEN <<body.password>> ELSE << >>
      user == find(userDatabase, identifier, password)
  IN  /\ IF user = Null
           THEN /\ resp' = [route |-> "POST /auth/manual-login", req |-> body,
                            status |-> loginRejected(identifier).status,
                            body |-> loginRejected(identifier).body, token |-> Null]
                /\ UNCHANGED issued
           ELSE LET token == jwtSign(loginClaims(user), JWT_SECRET, now)
                IN  /\ resp' = [route |-> "POST /auth/manual-login", req |-> body, status |-> 200,
                                body |-> "", token |-> token]
                    /\ issued' = Remember(token, "manual", loginClaims(user))
      /\ UNCHANGED <<now, reportsData, embedRequestCounts, calls, inflight>>

(***************************************************************************)
(* GET /auth/callback                                                      *)
(***************************************************************************)
\* outcome of the outbound calls: discovery, code exchange, profile fetch
\* o.discover, o.exchange \in {"ok", "fail"}; o.graph is Null when the fetch
\* or its JSON parsing fails, else the parsed body (whatever the status);
\* o.ok is the ok flag of the profile response, which the handler never reads
\* faulty variant: copies the profile's isAdmin
ssoClaims_trustProfile(graphUser) ==
  [email |-> toLowerCase(OrElse(graphUser, "mail", OrElse(graphUser, "userPrincipalName", ""))),
   department |-> OrElse(graphUser, "department", "IT"),
   name |-> OrElse(graphUser, "displayName", "User"),
   isAdmin |-> ("isAdmin" \in DOMAIN graphUser /\ graphUser.isAdmin)]

\* the claims signed for the profile returned by the provider
ssoClaims(graphUser) ==
  [email |-> toLowerCase(OrElse(graphUser, "mail", OrElse(graphUser, "userPrincipalName", ""))),
   department |-> OrElse(graphUser, "department", "IT"),
   name |-> OrElse(graphUser, "displayName", "User"),
   isAdmin |-> FALSE]

SsoCallback(o) ==
  /\ IF o.discover # "ok" \/ o.exchange # "ok" \/ o.graph = Null
       THEN /\ resp' = [route |-> "GET /auth/callback", req |-> o, status |-> 500,
                        body |-> "Authentication failed.", token |-> Null]
            /\ UNCHANGED issued
       ELSE LET token == jwtSign(ssoClaims(o.graph), JWT_SECRET, now)
            IN  /\ resp' = [route |-> "GET /auth/callback", req |-> o, status |-> 302,
                            body |-> "", token |-> token]
                /\ issued' = Remember(token, "sso", ssoClaims(o.graph))
  /\ UNCHANGED <<now, reportsData, embedRequestCounts, calls, inflight>>

(***************************************************************************)
(* GET /auth/callback of the earlier server, which resolves a missing      *)
(* department through a fallback table                                     *)
(***************************************************************************)
departmentMap ==
  [e \in {"bhavya@samunnati.com", "john.doe@company.com", "name1@gmail.com",
          "name2@gmail.com", "sarah.wilson@company.com", "mike.johnson@company.com"} |->
     CASE e = "bhavya@samunnati.com" -> "Finance"
       [] e = "john.doe@company.com" -> "HR"
       [] e = "name1@gmail.com" -> "Finance"
       [] e = "name2@gmail.com" -> "Sales"
       [] e = "sarah.wilson@company.com" -> "Marketing"
       [] e = "mike.johnson@company.com" -> "Operations"]

\* faulty variant: the table wins over the profile's department
ssoClaimsMapped_tableFirst(graphUser) ==
  LET email == toLowerCase(OrElse(graphUser, "mail", OrElse(graphUser, "userPrincipalName", "")))
  IN  [email |-> email,
       department |-> IF email \in DOMAIN departmentMap THEN departmentMap[email]
                      ELSE OrElse(graphUser, "department", "IT"),
       name |-> OrElse(graphUser, "displayName", "User")]

\* graphUser.department || departmentMap[email] || 'IT'
ssoClaimsMapped(graphUser) ==
  LET email == toLowerCase(OrElse(graphUser, "mail", OrElse(graphUser, "userPrincipalName", "")))
  IN  [email |-> email,
       department |-> OrElse(graphUser, "department",
                             IF email \in DOMAIN departmentMap THEN departmentMap[email]
                             ELSE "IT"),
       name |-> OrElse(graphUser, "displayName", "User")]

\* the issuer is discovered once, before the route exists
SsoCallbackMapped(o) ==
  /\ IF o.exchange # "ok" \/ o.graph = Null
       THEN /\ resp' = [route |-> "GET /auth/callback", req |-> o, status |-> 500,
                        body |-> "Authentication failed.", token |-> Null,
                        fallback |-> departmentMap]
            /\ UNCHANGED issued
       ELSE LET token == jwtSign(ssoClaimsMapped(o.graph), JWT_SECRET, now)
            IN  /\ resp' = [route |-> "GET /auth/callback", req |-> o, status |-> 302,
                            body |-> "", token |-> token, fallback |-> departmentMap]
                /\ issued' = Remember(token, "sso", ssoClaimsMapped(o.graph))
  /\ UNCHANGED <<now, reportsData, embedRequestCounts, calls, inflight>>

(***************************************************************************)
(* Middleware                                                              *)
(***************************************************************************)
\* A request's authorization header is the sequence of its parts between
\* single spaces (<< >> when the header is absent); a part is [raw |-> text]
\* or a token [payload |-> .., sig |-> ..].

\* faulty variant: takes the first part of the header
TokenOf_firstPart(authorization) == IF Len(authorization) >= 1 THEN authorization[1] ELSE Null

\* authHeader?.split(' ')[1]
TokenOf(authorization) == IF Len(authorization) >= 2 THEN authorization[2] ELSE Null

\* faulty variant: a login ends the sessions of all other tokens
verifyJWT_singleSession(authorization, t) ==
  LET token == TokenOf(authorization) IN
  IF token = Null \/ token = [raw |-> ""]
    THEN [next |-> FALSE, status |-> 401, body |-> "Token required", user |-> Null]
    ELSE LET v == jwtVerify(token, JWT_SECRET, t) IN
         IF "err" \in DOMAIN v \/ \E e \in issued : e.token # token
           THEN [next |-> FALSE, status |-> 403, body |-> "Invalid token", user |-> Null]
           ELSE [next |-> TRUE, status |-> 0, body |-> "", user |-> v.decoded]

\* faulty variant: tells an expired token from an invalid one
verifyJWT_expiredDistinct(authorization, t) ==
  LET token == TokenOf(authorization) IN
  IF token = Null \/ token = [raw |-> ""]
    THEN [next |-> FALSE, status |-> 401, body |-> "Token required", user |-> Null]
    ELSE LET v == jwtVerify(token, JWT_SECRET, t) IN
         IF "err" \in DOMAIN v
           THEN IF v.err = "jwt expired"
                  THEN [next |-> FALSE, status |-> 401, body |-> "Token expired", user |-> Null]
                  ELSE [next |-> FALSE, status |-> 403, body |-> "Invalid token", user |-> Null]
           ELSE [next |-> TRUE, status |-> 0, body |-> "", user |-> v.decoded]

\* result: whether next() is called, else the response; req.user afterwards
verifyJWT(authorization, t) ==
  LET token == TokenOf(authorization) IN
  IF token = Null \/ token = [raw |-> ""]
    THEN [next |-> FALSE, status |-> 401, body |-> "Token required", user |-> Null]
    ELSE LET v == jwtVerify(token, JWT_SECRET, t) IN
         IF "err" \in DOMAIN v
           THEN [next |-> FALSE, status |-> 403, body |-> "Invalid token", user |-> Null]
           ELSE [next |-> TRUE, status |-> 0, body |-> "", user |-> v.decoded]

\* faulty variant: any authenticated user passes
verifyAdmin_anyUser(user) ==
  IF user = Null
    THEN [next |-> FALSE, status |-> 403, body |-> "Admin only", user |-> user]
    ELSE [next |-> TRUE, status |-> 0, body |-> "", user |-> user]

verifyAdmin(user) ==
  IF user = Null \/ "isAdmin" \notin DOMAIN user \/ ~user.isAdmin
    THEN [next |-> FALSE, status |-> 403, body |-> "Admin only", user |-> user]
    ELSE [next |-> TRUE, status |-> 0, body |-> "", user |-> user]

\* app.<method>(path, verifyJWT, verifyAdmin, handler)
AdminGate(authorization, t) ==
  LET v == verifyJWT(authorization, t) IN
  IF v.next THEN verifyAdmin(v.user) ELSE v

\* the middleware answered; the route handler is not called
Rejected(route, req, g) ==
  /\ resp' = [route |-> route, req |-> req, status |-> g.status, body |-> g.body,
              user |-> g.user, handler |-> FALSE, read |-> FALSE, wrote |-> FALSE,
              data |-> Null]
  /\ UNCHANGED reportsData

\* the route handler ran and answered
Answered(route, req, user, status, body, read, wrote, data) ==
  resp' = [route |-> route, req |-> req, status |-> status, body |-> body,
           user |-> user, handler |-> TRUE, read |-> read, wrote |-> wrote,
           data |-> data]

(***************************************************************************)
(* reports-data.json                                                       *)
(***************************************************************************)
EmptyObject == [d \in {} |-> << >>]       \* {}

\* disk = "fail": readFileSync / writeFileSync throws
loadReportsData(disk) == IF disk = "ok" THEN reportsData ELSE EmptyObject

\* the file after saveReportsData(data), and its return value
saveReportsData(data, disk) ==
  IF disk = "ok" /\ data # Null
    THEN [file |-> data, success |-> TRUE]
    ELSE [file |-> reportsData, success |-> FALSE]

\* Array.prototype.filter
RECURSIVE filter(_, _)
filter(seq, keepInactive) ==
  IF seq = << >> THEN << >>
  ELSE LET r == Head(seq)
           keep == IF keepInactive THEN ~("isActive" \in DOMAIN r /\ r.isActive = FALSE)
                   ELSE "isActive" \in DOMAIN r /\ r.isActive = TRUE
       IN  (IF keep THEN <<r>> ELSE << >>) \o filter(Tail(seq), keepInactive)

\* Array.prototype.findIndex on r.id (0 when not found)
findIndex(seq, reportId) ==
  IF \E i \in 1..Len(seq) : seq[i].id = reportId
    THEN CHOOSE i \in 1..Len(seq) :
           seq[i].id = reportId /\ \A j \in 1..(i - 1) : seq[j].id # reportId
    ELSE 0

RECURSIVE reduce(_, _, _)
reduce(data, depts, onlyActive) ==
  IF depts = {} THEN 0
  ELSE LET d == CHOOSE x \in depts : TRUE
           n == IF onlyActive THEN Len(filter(data[d], FALSE)) ELSE Len(data[d])
       IN  n + reduce(data, depts \ {d}, onlyActive)

(***************************************************************************)
(* decodeURIComponent, for the escapes that occur                          *)
(***************************************************************************)
Escapes == [e \in {"%20", "%46"} |-> IF e = "%20" THEN " " ELSE "F"]

\* Null stands for the URIError thrown on a malformed escape
RECURSIVE decodeURIComponent(_)
decodeURIComponent(s) ==
  IF s = "" THEN [text |-> ""]
  ELSE IF SubSeq(s, 1, 1) # "%"
    THEN LET rest == decodeURIComponent(SubSeq(s, 2, Len(s))) IN
         IF rest = Null THEN Null ELSE [text |-> SubSeq(s, 1, 1) \o rest.text]
  ELSE IF Len(s) >= 3 /\ SubSeq(s, 1, 3) \in DOMAIN Escapes
    THEN LET rest == decodeURIComponent(SubSeq(s, 4, Len(s))) IN
         IF rest = Null THEN Null ELSE [text |-> Escapes[SubSeq(s, 1, 3)] \o rest.text]
  ELSE Null

(***************************************************************************)
(* GET /api/reports/:department                                            *)
(***************************************************************************)
DeptReports(authorization, param, disk) ==
  LET route == "GET /api/reports/:department"
      req == [authorization |-> authorization, department |-> param]
      g == verifyJWT(authorization, now)
      department == decodeURIComponent(param)
  IN  /\ IF ~g.next THEN Rejected(route, req, g)
         ELSE IF department = Null
           THEN \* URIError reaches the default error handler
                /\ Answered(route, req, g.user, 500, "Internal Server Error", FALSE, FALSE, Null)
                /\ UNCHANGED reportsData
         ELSE IF ~g.user.isAdmin /\ department.text # g.user.department
           THEN /\ Answered(route, req, g.user, 403, "Access denied", FALSE, FALSE, Null)
                /\ UNCHANGED reportsData
         ELSE LET reports == loadReportsData(disk)
                  departmentReports == IF department.text \in DOMAIN reports
                                         THEN reports[department.text] ELSE << >>
              IN  /\ Answered(route, req, g.user, 200, "", TRUE, FALSE,
                              [department |-> department.text,
                               reports |-> filter(departmentReports, TRUE)])
                  /\ UNCHANGED reportsData
      /\ UNCHANGED <<now, issued, embedRequestCounts, calls, inflight>>

(***************************************************************************)
(* /api/admin/* (reports and departments)                                  *)
(***************************************************************************)

\* a read-only admin handler answering data
AdminRead(route, authorization, data) ==
  LET req == [authorization |-> authorization]
      g == AdminGate(authorization, now)
  IN  /\ IF ~g.next THEN Rejected(route, req, g)
         ELSE /\ Answered(route, req, g.user, 200, "", TRUE, FALSE, data)
              /\ UNCHANGED reportsData
      /\ UNCHANGED <<now, issued, embedRequestCounts, calls, inflight>>

\* a handler that answers without touching the file
AdminRefuse(route, req, user, status, body, read) ==
  /\ Answered(route, req, user, status, body, read, FALSE, Null)
  /\ UNCHANGED reportsData

\* a handler that ends with saveReportsData(data)
AdminSave(route, req, user, data, disk, okBody, failBody, read) ==
  LET saved == saveReportsData(data, disk) IN
  /\ reportsData' = saved.file
  /\ IF saved.success
       THEN Answered(route, req, user, 200, okBody, read, TRUE, Null)
       ELSE Answered(route, req, user, 500, failBody, read, TRUE, Null)

GetDepartments(authorization, disk) ==
  AdminRead("GET /api/admin/departments", authorization,
            [departments |-> DOMAIN loadReportsData(disk)])

GetAdminReports(authorization, disk) ==
  AdminRead("GET /api/admin/reports", authorization, loadReportsData(disk))

GetAllReports(authorization, disk) ==
  LET data == loadReportsData(disk) IN
  AdminRead("GET /api/admin/all-reports", authorization,
            [reports |-> UNION {{[department |-> d] @@ data[d][i] : i \in 1..Len(data[d])} :
                                  d \in DOMAIN data}])

GetStats(authorization, disk) ==
  LET reports == loadReportsData(disk) IN
  AdminRead("GET /api/admin/stats", authorization,
            [totalUsers |-> Len(userDatabase),
             totalReports |-> reduce(reports, DOMAIN reports, FALSE),
             activeReports |-> reduce(reports, DOMAIN reports, TRUE)])

\* POST /api/admin/departments; body.departmentName absent when not in DOMAIN
AddDepartment(authorization, body, disk) ==
  LET route == "POST /api/admin/departments"
      req == [authorization |-> authorization, body |-> body]
      g == AdminGate(authorization, now)
      data == loadReportsData(disk)
  IN  /\ IF ~g.next THEN Rejected(route, req, g)
         ELSE IF "departmentName" \notin DOMAIN body \/ body.departmentName = ""
           THEN AdminRefuse(route, req, g.user, 400, "Department name is required", FALSE)
         ELSE IF body.departmentName \in DOMAIN data
           THEN AdminRefuse(route, req, g.user, 400, "Department already exists", TRUE)
         ELSE AdminSave(route, req, g.user,
                        [d \in DOMAIN data \cup {body.departmentName} |->
                           IF d = body.departmentName THEN << >> ELSE data[d]],
                        disk, "Department added successfully", "Failed to save department", TRUE)
      /\ UNCHANGED <<now, issued, embedRequestCounts, calls, inflight>>

\* DELETE /api/admin/departments/:departmentName
DeleteDepartment(authorization, departmentName, disk) ==
  LET route == "DELETE /api/admin/departments/:departmentName"
      req == [authorization |-> authorization, departmentName |-> departmentName]
      g == AdminGate(authorization, now)
      data == loadReportsData(disk)
  IN  /\ IF ~g.next THEN Rejected(route, req, g)
         ELSE IF departmentName \notin DOMAIN data
           THEN AdminRefuse(route, req, g.user, 404, "Department not found", TRUE)
         ELSE AdminSave(route, req, g.user,
                        [d \in DOMAIN data \ {departmentName} |-> data[d]],
                        disk, "Department deleted successfully", "Failed to delete department", TRUE)
      /\ UNCHANGED <<now, issued, embedRequestCounts, calls, inflight>>

\* PUT /api/admin/reports; body.reportsData is Null when the body has none
PutReports(authorization, newReportsData, disk) ==
  LET route == "PUT /api/admin/reports"
      req == [authorization |-> authorization, reportsData |-> newReportsData]
      g == AdminGate(authorization, now)
  IN  /\ IF ~g.next THEN Rejected(route, req, g)
         ELSE AdminSave(route, req, g.user, newReportsData, disk, "Saved", "Save failed", FALSE)
      /\ UNCHANGED <<now, issued, embedRequestCounts, calls, inflight>>

\* PUT /api/admin/reports/:department/:reportId
PutReport(authorization, department, reportId, newData, disk) ==
  LET route == "PUT /api/admin/reports/:department/:reportId"
      req == [authorization |-> authorization, department |-> department,
              reportId |-> reportId, body |-> newData]
      g == AdminGate(authorization, now)
      data == loadReportsData(disk)
  IN  /\ IF ~g.next THEN Rejected(route, req, g)
         ELSE IF department \notin DOMAIN data
           THEN AdminRefuse(route, req, g.user, 404, "Department not found", TRUE)
         ELSE LET index == findIndex(data[department], reportId) IN
              IF index = 0
                THEN AdminRefuse(route, req, g.user, 404, "Report not found", TRUE)
                ELSE AdminSave(route, req, g.user,
                               [data EXCEPT ![department][index] = newData @@ @],
                               disk, "Updated", "Save failed", TRUE)
      /\ UNCHANGED <<now, issued, embedRequestCounts, calls, inflight>>

(***************************************************************************)
(* Rate limiter of embed generation                                        *)
(***************************************************************************)
\* faulty variant: lets one call too many through
checkEmbedRateLimit_offByOne(counts, userEmail, t) ==
  IF userEmail \notin DOMAIN counts \/ t > counts[userEmail].resetTime
    THEN [allowed |-> TRUE,
          counts |-> [k \in DOMAIN counts \cup {userEmail} |->
                        IF k = userEmail
                          THEN [count |-> 1, resetTime |-> t + EMBED_RATE_WINDOW]
                          ELSE counts[k]]]
  ELSE IF counts[userEmail].count > EMBED_RATE_LIMIT
    THEN [allowed |-> FALSE, counts |-> counts]
  ELSE [allowed |-> TRUE, counts |-> [counts EXCEPT ![userEmail].count = @ + 1]]

\* faulty variant: every allowed call restarts the window
checkEmbedRateLimit_sliding(counts, userEmail, t) ==
  IF userEmail \notin DOMAIN counts \/ t > counts[userEmail].resetTime
    THEN [allowed |-> TRUE,
          counts |-> [k \in DOMAIN counts \cup {userEmail} |->
                        IF k = userEmail
                          THEN [count |-> 1, resetTime |-> t + EMBED_RATE_WINDOW]
                          ELSE counts[k]]]
  ELSE IF counts[userEmail].count >= EMBED_RATE_LIMIT
    THEN [allowed |-> FALSE, counts |-> counts]
  ELSE [allowed |-> TRUE,
        counts |-> [counts EXCEPT ![userEmail] =
                      [count |-> @.count + 1, resetTime |-> t + EMBED_RATE_WINDOW]]]

\* faulty variant: a denied call restarts the window
checkEmbedRateLimit_penalty(counts, userEmail, t) ==
  IF userEmail \notin DOMAIN counts \/ t > counts[userEmail].resetTime
    THEN [allowed |-> TRUE,
          counts |-> [k \in DOMAIN counts \cup {userEmail} |->
                        IF k = userEmail
                          THEN [count |-> 1, resetTime |-> t + EMBED_RATE_WINDOW]
                          ELSE counts[k]]]
  ELSE IF counts[userEmail].count >= EMBED_RATE_LIMIT
    THEN [allowed |-> FALSE,
          counts |-> [counts EXCEPT ![userEmail].resetTime = t + EMBED_RATE_WINDOW]]
  ELSE [allowed |-> TRUE, counts |-> [counts EXCEPT ![userEmail].count = @ + 1]]

\* faulty variant: a new window starts counting at 0
checkEmbedRateLimit_resetToZero(counts, userEmail, t) ==
  IF userEmail \notin DOMAIN counts \/ t > counts[userEmail].resetTime
    THEN [allowed |-> TRUE,
          counts |-> [k \in DOMAIN counts \cup {userEmail} |->
                        IF k = userEmail
                          THEN [count |-> 0, resetTime |-> t + EMBED_RATE_WINDOW]
                          ELSE counts[k]]]
  ELSE IF counts[userEmail].count >= EMBED_RATE_LIMIT
    THEN [allowed |-> FALSE, counts |-> counts]
  ELSE [allowed |-> TRUE, counts |-> [counts EXCEPT ![userEmail].count = @ + 1]]

\* faulty variant: the window has elapsed as soon as t reaches resetTime
checkEmbedRateLimit_resetAtBoundary(counts, userEmail, t) ==
  IF userEmail \notin DOMAIN counts \/ t >= counts[userEmail].resetTime
    THEN [allowed |-> TRUE,
          counts |-> [k \in DOMAIN counts \cup {userEmail} |->
                        IF k = userEmail
                          THEN [count |-> 1, resetTime |-> t + EMBED_RATE_WINDOW]
                          ELSE counts[k]]]
  ELSE IF counts[userEmail].count >= EMBED_RATE_LIMIT
    THEN [allowed |-> FALSE, counts |-> counts]
  ELSE [allowed |-> TRUE, counts |-> [counts EXCEPT ![userEmail].count = @ + 1]]

\* faulty variant: the count read is written back after a suspension, so the
\* increment is lost while another request of the key is in flight
checkEmbedRateLimit_lostIncrement(counts, userEmail, t) ==
  IF userEmail \notin DOMAIN counts \/ t > counts[userEmail].resetTime
    THEN [allowed |-> TRUE,
          counts |-> [k \in DOMAIN counts \cup {userEmail} |->
                        IF k = userEmail
                          THEN [count |-> 1, resetTime |-> t + EMBED_RATE_WINDOW]
                          ELSE counts[k]]]
  ELSE IF counts[userEmail].count >= EMBED_RATE_LIMIT
    THEN [allowed |-> FALSE, counts |-> counts]
  ELSE IF \E i \in 1..Len(inflight) :
            "g" \in DOMAIN inflight[i] /\ inflight[i].g.user.email = userEmail
    THEN [allowed |-> TRUE, counts |-> counts]
  ELSE [allowed |-> TRUE, counts |-> [counts EXCEPT ![userEmail].count = @ + 1]]

\* faulty variant: opening a window forgets the counters of the other keys
checkEmbedRateLimit_forgetsOthers(counts, userEmail, t) ==
  IF userEmail \notin DOMAIN counts \/ t > counts[userEmail].resetTime
    THEN [allowed |-> TRUE,
          counts |-> [k \in {userEmail} |->
                        [count |-> 1, resetTime |-> t + EMBED_RATE_WINDOW]]]
  ELSE IF counts[userEmail].count >= EMBED_RATE_LIMIT
    THEN [allowed |-> FALSE, counts |-> counts]
  ELSE [allowed |-> TRUE, counts |-> [counts EXCEPT ![userEmail].count = @ + 1]]

\* result: the return value and the map afterwards
checkEmbedRateLimit(counts, userEmail, t) ==
  IF userEmail \notin DOMAIN counts \/ t > counts[userEmail].resetTime
    THEN [allowed |-> TRUE,
          counts |-> [k \in DOMAIN counts \cup {userEmail} |->
                        IF k = userEmail
                          THEN [count |-> 1, resetTime |-> t + EMBED_RATE_WINDOW]
                          ELSE counts[k]]]
  ELSE IF counts[userEmail].count >= EMBED_RATE_LIMIT
    THEN [allowed |-> FALSE, counts |-> counts]
  ELSE [allowed |-> TRUE, counts |-> [counts EXCEPT ![userEmail].count = @ + 1]]

\* what an observer has seen of the calls for a key: the time of the first
\* call, the number of calls, and how many came more than a window after the
\* first (2 stands for two or more)
Observe(userEmail, t) ==
  IF userEmail \notin DOMAIN calls
    THEN [first |-> t, n |-> 1, after |-> 0]
    ELSE LET c == calls[userEmail] IN
         [first |-> c.first, n |-> c.n + 1,
          after |-> IF t > c.first + EMBED_RATE_WINDOW /\ c.after < 2 THEN c.after + 1 ELSE c.after]

\* one call checkEmbedRateLimit(req.user.email) at the current time
RateCheck(userEmail) ==
  LET r == checkEmbedRateLimit(embedRequestCounts, userEmail, now) IN
  /\ userEmail \in DOMAIN calls => calls[userEmail].n < MaxCalls
  /\ embedRequestCounts' = r.counts
  /\ calls' = [k \in DOMAIN calls \cup {userEmail} |->
                 IF k = userEmail THEN Observe(userEmail, now) ELSE calls[k]]
  /\ resp' = [route |-> "checkEmbedRateLimit", status |-> 0, key |-> userEmail,
              allowed |-> r.allowed]
  /\ UNCHANGED <<now, issued, reportsData, inflight>>

\* the times of the allowed calls for a key that lie less than a window
\* before t, this call included when it is allowed
Recent(userEmail, t, allowed) ==
  LET before == IF userEmail \in DOMAIN calls THEN calls[userEmail].recent ELSE << >>
      all == IF allowed THEN Append(before, t) ELSE before
      Live(x) == x > t - EMBED_RATE_WINDOW
  IN  SelectSeq(all, Live)

\* the same call, observed by the times of its allowed calls
RateCheckTimed(userEmail) ==
  LET r == checkEmbedRateLimit(embedRequestCounts, userEmail, now) IN
  /\ embedRequestCounts' = r.counts
  /\ calls' = [k \in DOMAIN calls \cup {userEmail} |->
                 IF k = userEmail
                   THEN [recent |-> Recent(userEmail, now, r.allowed)]
                   ELSE calls[k]]
  /\ resp' = [route |-> "checkEmbedRateLimit", status |-> 0, key |-> userEmail,
              allowed |-> r.allowed]
  /\ UNCHANGED <<now, issued, reportsData, inflight>>

(***************************************************************************)
(* generatePowerBIEmbed                                                    *)
(*                                                                         *)
(* The function awaits three fetches: the service access token, the embed  *)
(* token (GenerateToken) and the report details.  Between the awaits it    *)
(* touches only its own locals, so the whole call is one step whose input  *)
(* o holds the provider's answers: o.token, o.embed, o.report, each        *)
(*   [kind |-> "ok", ..fields of the JSON body..],                         *)
(*   [kind |-> "status", statusText |-> .., text |-> ..]  (response.ok is  *)
(*   false) or [kind |-> "throw"] (the fetch rejects).                     *)
(* The text of a non-success answer is [json |-> parsed body] or           *)
(* [raw |-> characters that JSON.parse rejects].                           *)
(* process.env holds the four POWERBI_ variables.                          *)
(***************************************************************************)
POWERBI_GROUP_ID == "POWERBI_GROUP_ID"

\* the datasets named in the request: datasetId, then sharedDatasetId when it
\* is truthy and differs ("" stands for an absent sharedDatasetId)
datasets(datasetId, sharedDatasetId) ==
  <<[id |-> datasetId, xmlaPermissions |-> "ReadOnly"]>>
  \o (IF sharedDatasetId # "" /\ sharedDatasetId # datasetId
        THEN <<[id |-> sharedDatasetId, xmlaPermissions |-> "ReadOnly"]>>
        ELSE << >>)

\* faulty variant: the effective identity covers the main dataset only
identities_mainOnly(datasetId, sharedDatasetId) ==
  <<[username |-> "saineeraj.kumar@samunnati.com", roles |-> <<"RM">>,
     datasets |-> <<datasetId>>]>>

\* the effective identities: one entry per dataset
identities(datasetId, sharedDatasetId) ==
  <<[username |-> "saineeraj.kumar@samunnati.com", roles |-> <<"RM">>,
     datasets |-> <<datasetId>>]>>
  \o (IF sharedDatasetId # "" /\ sharedDatasetId # datasetId
        THEN <<[username |-> "saineeraj.kumar@samunnati.com", roles |-> <<"RM">>,
                datasets |-> <<sharedDatasetId>>]>>
        ELSE << >>)

embedTokenPayload(reportId, datasetId, sharedDatasetId) ==
  [datasets |-> datasets(datasetId, sharedDatasetId),
   reports |-> <<[id |-> reportId]>>,
   targetWorkspaces |-> <<[id |-> POWERBI_GROUP_ID]>>,
   identities |-> identities(datasetId, sharedDatasetId)]

\* the message of the Error thrown when GenerateToken is refused
errorMessage(answer) ==
  LET base == "Embed token generation failed: " \o answer.statusText IN
  IF "raw" \in DOMAIN answer.text
    THEN base \o " - " \o answer.text.raw
  ELSE IF /\ "error" \in DOMAIN answer.text.json
          /\ "message" \in DOMAIN answer.text.json.error
          /\ answer.text.json.error.message # ""
    THEN base \o " - " \o answer.text.json.error.message
  ELSE base

\* the message of the Error thrown by a fetch that did not succeed
Thrown(what, answer) ==
  IF answer.kind = "throw" THEN "fetch failed" ELSE what \o answer.statusText

\* faulty variant: looks the report up even after GenerateToken was refused
generatePowerBIEmbed_keepsGoing(reportId, datasetId, sharedDatasetId, o) ==
  LET payload == embedTokenPayload(reportId, datasetId, sharedDatasetId)
      call1 == [to |-> "oauth2/v2.0/token"]
      call2 == [to |-> "GenerateToken", body |-> payload]
      call3 == [to |-> "reports/" \o reportId]
  IN  IF o.token.kind # "ok"
        THEN [outbound |-> <<call1>>, value |-> Null,
              thrown |-> Thrown("Token request failed: ", o.token)]
      ELSE IF o.embed.kind = "throw"
        THEN [outbound |-> <<call1, call2>>, value |-> Null, thrown |-> "fetch failed"]
      ELSE IF o.embed.kind # "ok"
        THEN [outbound |-> <<call1, call2, call3>>, value |-> Null,
              thrown |-> errorMessage(o.embed)]
      ELSE IF o.report.kind # "ok"
        THEN [outbound |-> <<call1, call2, call3>>, value |-> Null,
              thrown |-> Thrown("Report details fetch failed: ", o.report)]
      ELSE IF "embedUrl" \notin DOMAIN o.report
        THEN [outbound |-> <<call1, call2, call3>>, value |-> Null,
              thrown |-> "Cannot read properties of undefined"]
      ELSE [outbound |-> <<call1, call2, call3>>,
            value |-> [embedToken |-> o.embed.token, embedUrl |-> o.report.embedUrl],
            thrown |-> ""]

\* result: the outbound calls made, then either the value returned or the
\* message of the Error thrown
generatePowerBIEmbed(reportId, datasetId, sharedDatasetId, o) ==
  LET payload == embedTokenPayload(reportId, datasetId, sharedDatasetId)
      call1 == [to |-> "oauth2/v2.0/token"]
      call2 == [to |-> "GenerateToken", body |-> payload]
      call3 == [to |-> "reports/" \o reportId]
  IN  IF o.token.kind # "ok"
        THEN [outbound |-> <<call1>>, value |-> Null,
              thrown |-> Thrown("Token request failed: ", o.token)]
      ELSE IF o.embed.kind = "throw"
        THEN [outbound |-> <<call1, call2>>, value |-> Null, thrown |-> "fetch failed"]
      ELSE IF o.embed.kind # "ok"
        THEN [outbound |-> <<call1, call2>>, value |-> Null, thrown |-> errorMessage(o.embed)]
      ELSE IF o.report.kind # "ok"
        THEN [outbound |-> <<call1, call2, call3>>, value |-> Null,
              thrown |-> Thrown("Report details fetch failed: ", o.report)]
      ELSE IF "embedUrl" \notin DOMAIN o.report
        THEN \* embedUrl.substring of undefined
             [outbound |-> <<call1, call2, call3>>, value |-> Null,
              thrown |-> "Cannot read properties of undefined"]
      ELSE [outbound |-> <<call1, call2, call3>>,
            value |-> [embedToken |-> o.embed.token, embedUrl |-> o.report.embedUrl],
            thrown |-> ""]

(***************************************************************************)
(* generatePowerBIEmbed of auth-server/server.ts: coreDatasetId is         *)
(* required, both datasets are always named and the effective identity     *)
(* covers coreDatasetId only                                               *)
(***************************************************************************)
embedTokenPayloadCore(reportId, datasetId, coreDatasetId) ==
  [datasets |-> <<[id |-> datasetId, xmlaPermissions |-> "ReadOnly"],
                  [id |-> coreDatasetId, xmlaPermissions |-> "ReadOnly"]>>,
   reports |-> <<[id |-> reportId]>>,
   targetWorkspaces |-> <<[id |-> POWERBI_GROUP_ID]>>,
   identities |-> <<[username |-> "saineeraj.kumar@samunnati.com", roles |-> <<"RM">>,
                     datasets |-> <<coreDatasetId>>]>>]

generatePowerBIEmbedCore(reportId, datasetId, coreDatasetId, o) ==
  LET payload == embedTokenPayloadCore(reportId, datasetId, coreDatasetId)
      call1 == [to |-> "oauth2/v2.0/token"]
      call2 == [to |-> "GenerateToken", body |-> payload]
      call3 == [to |-> "reports/" \o reportId]
  IN  IF o.token.kind # "ok"
        THEN [outbound |-> <<call1>>, value |-> Null,
              thrown |-> Thrown("Token request failed: ", o.token)]
      ELSE IF o.embed.kind # "ok"
        THEN [outbound |-> <<call1, call2>>, value |-> Null,
              thrown |-> Thrown("Embed token generation failed: ", o.embed)]
      ELSE IF o.report.kind # "ok"
        THEN [outbound |-> <<call1, call2, call3>>, value |-> Null,
              thrown |-> Thrown("Report details fetch failed: ", o.report)]
      ELSE \* res.json leaves out an undefined embedUrl
           [outbound |-> <<call1, call2, call3>>,
            value |-> [embedToken |-> o.embed.token]
                      @@ [f \in {"embedUrl"} \cap DOMAIN o.report |-> o.report[f]],
            thrown |-> ""]

(***************************************************************************)
(* Answers of the identity provider and the visualization provider         *)
(***************************************************************************)
Granted == [kind |-> "ok", access_token |-> "service-access-token"]

Generated == [kind |-> "ok", token |-> "embed-token"]

Details == [kind |-> "ok", embedUrl |-> "https://app.powerbi.com/reportEmbed"]

Refused(statusText, text) == [kind |-> "status", statusText |-> statusText, text |-> text]

ProviderOutcomes ==
  {[token |-> Granted, embed |-> Generated, report |-> Details],
   [token |-> Refused("Unauthorized", [raw |-> ""]), embed |-> Generated, report |-> Details],
   [token |-> [kind |-> "throw"], embed |-> Generated, report |-> Details],
   [token |-> Granted, report |-> Details,
    embed |-> Refused("Forbidden",
                      [json |-> [error |-> [code |-> "PowerBINotAuthorizedException",
                                            message |-> "Dataset requires effective identity"]]])],
   [token |-> Granted, report |-> Details,
    embed |-> Refused("Bad Request", [json |-> [error |-> [code |-> "BadRequest"]]])],
   [token |-> Granted, report |-> Details,
    embed |-> Refused("Service Unavailable", [raw |-> "upstream connect error"])],
   [token |-> Granted, embed |-> Generated, report |-> Refused("Not Found", [raw |-> ""])],
   [token |-> Granted, embed |-> Generated, report |-> [kind |-> "ok"]]}

(***************************************************************************)
(* POST /api/reports/generate-embed and POST /api/admin/generate-embed     *)
(***************************************************************************)
\* the response of an embed route and what the step did on the way:
\* checked: checkEmbedRateLimit was called; outbound: the calls made to the
\* identity provider and the visualization provider; thrown: the message of
\* the Error that the handler caught and logged
EmbedAnswered(server, route, req, g, status, body, checked, o, result) ==
  resp' = [server |-> server, route |-> route, req |-> req, status |-> status,
           body |-> body, user |-> g.user, handler |-> g.next, checked |-> checked,
           provider |-> o, outbound |-> result.outbound, thrown |-> result.thrown,
           data |-> result.value]

NoCall == [outbound |-> << >>, value |-> Null, thrown |-> ""]

\* faulty variant: only datasetId is required
Validated_datasetOnly(body) ==
  "datasetId" \in DOMAIN body /\ body.datasetId # ""

\* !reportId || !datasetId does not hold
Validated(body) ==
  /\ "reportId" \in DOMAIN body /\ body.reportId # ""
  /\ "datasetId" \in DOMAIN body /\ body.datasetId # ""

\* faulty variant: one counter for all callers
RateKey_shared(user) == "*"

\* the key of the limiter: req.user!.email
RateKey(user) == user.email

\* faulty variant: a failed generation gives the unit of quota back
Caught_refund(counts, userEmail) == [counts EXCEPT ![userEmail].count = @ - 1]

\* the map after the catch block of the handler, which logs the error and
\* answers 500: as checkEmbedRateLimit left it
Caught(counts, userEmail) == counts

\* the handler shared by the two routes, after the middleware let it run
EmbedHandler(route, req, g, body, missing, failed) ==
  IF ~Validated(body)
    THEN /\ EmbedAnswered("part_001", route, req, g, 400, missing, FALSE, Null, NoCall)
         /\ UNCHANGED embedRequestCounts
  ELSE LET r == checkEmbedRateLimit(embedRequestCounts, RateKey(g.user), now) IN
       IF ~r.allowed
         THEN /\ embedRequestCounts' = r.counts
              /\ EmbedAnswered("part_001", route, req, g, 429,
                               "Rate limit exceeded. Please wait before generating more embed tokens.",
                               TRUE, Null, NoCall)
         ELSE \E o \in ProviderOutcomes :
                LET result == generatePowerBIEmbed(body.reportId, body.datasetId,
                                                   OrElse(body, "sharedDatasetId", ""), o)
                IN  IF result.value # Null
                      THEN /\ embedRequestCounts' = r.counts
                           /\ EmbedAnswered("part_001", route, req, g, 200, "", TRUE, o, result)
                      ELSE /\ embedRequestCounts' = Caught(r.counts, RateKey(g.user))
                           /\ EmbedAnswered("part_001", route, req, g, 500, failed, TRUE, o, result)

\* faulty variant: a caller may embed the reports of the own department only
GenerateEmbed_ownDepartment(authorization, body) ==
  LET route == "POST /api/reports/generate-embed"
      req == [authorization |-> authorization, body |-> body]
      g == verifyJWT(authorization, now)
  IN  /\ IF ~g.next
           THEN /\ EmbedAnswered("part_001", route, req, g, g.status, g.body, FALSE, Null, NoCall)
                /\ UNCHANGED embedRequestCounts
         ELSE IF /\ Validated(body)
                 /\ ~g.user.isAdmin
                 /\ \/ g.user.department \notin DOMAIN reportsData
                    \/ findIndex(reportsData[g.user.department], body.reportId) = 0
           THEN /\ EmbedAnswered("part_001", route, req, g, 403, "Access denied", FALSE, Null, NoCall)
                /\ UNCHANGED embedRequestCounts
         ELSE EmbedHandler(route, req, g, body,
                           "Missing embed parameters: reportId and datasetId are required",
                           "Failed to generate embed token or URL")
      /\ UNCHANGED <<now, issued, reportsData, calls, inflight>>


GenerateEmbed(authorization, body) ==
  LET route == "POST /api/reports/generate-embed"
      req == [authorization |-> authorization, body |-> body]
      g == verifyJWT(authorization, now)
  IN  /\ IF ~g.next
           THEN /\ EmbedAnswered("part_001", route, req, g, g.status, g.body, FALSE, Null, NoCall)
                /\ UNCHANGED embedRequestCounts
           ELSE EmbedHandler(route, req, g, body,
                             "Missing embed parameters: reportId and datasetId are required",
                             "Failed to generate embed token or URL")
      /\ UNCHANGED <<now, issued, reportsData, calls, inflight>>

AdminGenerateEmbed(authorization, body) ==
  LET route == "POST /api/admin/generate-embed"
      req == [authorization |-> authorization, body |-> body]
      g == AdminGate(authorization, now)
  IN  /\ IF ~g.next
           THEN /\ EmbedAnswered("part_001", route, req, g, g.status, g.body, FALSE, Null, NoCall)
                /\ UNCHANGED embedRequestCounts
           ELSE EmbedHandler(route, req, g, body,
                             "Report ID and dataset ID are required",
                             "Failed to generate embed details")
      /\ UNCHANGED <<now, issued, reportsData, calls, inflight>>

(***************************************************************************)
(* The same two routes in auth-server/server.ts                            *)
(***************************************************************************)
\* !reportId || !datasetId || !coreDatasetId does not hold
ValidatedCore(body) ==
  /\ Validated(body)
  /\ "coreDatasetId" \in DOMAIN body /\ body.coreDatasetId # ""

EmbedHandlerCore(route, req, g, body, missing, failed) ==
  IF ~ValidatedCore(body)
    THEN EmbedAnswered("server.ts", route, req, g, 400, missing, FALSE, Null, NoCall)
  ELSE \E o \in ProviderOutcomes :
         LET result == generatePowerBIEmbedCore(body.reportId, body.datasetId,
                                                body.coreDatasetId, o)
         IN  IF result.value # Null
               THEN EmbedAnswered("server.ts", route, req, g, 200, "", FALSE, o, result)
               ELSE EmbedAnswered("server.ts", route, req, g, 500, failed, FALSE, o, result)

GenerateEmbedCore(authorization, body) ==
  LET route == "POST /api/reports/generate-embed"
      req == [authorization |-> authorization, body |-> body]
      g == verifyJWT(authorization, now)
  IN  /\ IF ~g.next
           THEN EmbedAnswered("server.ts", route, req, g, g.status, g.body, FALSE, Null, NoCall)
           ELSE EmbedHandlerCore(route, req, g, body,
                  "Missing embed parameters: reportId, datasetId, and coreDatasetId are required",
                  "Failed to generate embed token or URL")
      /\ UNCHANGED <<now, issued, reportsData, embedRequestCounts, calls, inflight>>

AdminGenerateEmbedCore(authorization, body) ==
  LET route == "POST /api/admin/generate-embed"
      req == [authorization |-> authorization, body |-> body]
      g == AdminGate(authorization, now)
  IN  /\ IF ~g.next
           THEN EmbedAnswered("server.ts", route, req, g, g.status, g.body, FALSE, Null, NoCall)
           ELSE EmbedHandlerCore(route, req, g, body,
                  "Report ID, dataset ID, and core dataset ID are required",
                  "Failed to generate embed details")
      /\ UNCHANGED <<now, issued, reportsData, embedRequestCounts, calls, inflight>>

(***************************************************************************)
(* The handlers cut at their awaits                                        *)
(*                                                                         *)
(* Node runs a handler until it awaits an outbound call, runs other        *)
(* requests meanwhile and resumes the handler when the call settles.  The  *)
(* actions below take the handlers of GET /auth/login-url and of           *)
(* POST /api/reports/generate-embed one such stretch at a time: Begin runs *)
(* up to the first await, Resume from one await to the next or to the      *)
(* response.  A suspended request is an entry of inflight.                 *)
(***************************************************************************)
\* inflight without its i-th entry
Drop(i) == SubSeq(inflight, 1, i - 1) \o SubSeq(inflight, i + 1, Len(inflight))

\* const issuer = await Issuer.discover(...)
LoginUrlBegin ==
  /\ Len(inflight) < MaxInflight
  /\ inflight' = Append(inflight, [route |-> "GET /auth/login-url", awaiting |-> "discover"])
  /\ UNCHANGED <<now, issued, reportsData, embedRequestCounts, calls, resp>>

\* the discovery settles.  The handler has no try/catch: when discovery
\* rejects, so does the promise of the handler.  forwarded tells what the
\* router does with it: it hands the error to the default error handler,
\* which answers 500 (Express 5), or it drops the promise (Express 4), so
\* that no response is written and the rejection stays unhandled.
LoginUrlResume(i, answer, forwarded) ==
  LET route == "GET /auth/login-url" IN
  /\ inflight[i].route = route
  /\ inflight' = Drop(i)
  /\ resp' = IF answer = "ok"
               THEN [route |-> route, status |-> 200, body |-> "",
                     url |-> "https://login.microsoftonline.com/oauth2/v2.0/authorize",
                     unhandledRejection |-> FALSE]
             ELSE IF forwarded
               THEN [route |-> route, status |-> 500, body |-> "Internal Server Error",
                     url |-> Null, unhandledRejection |-> FALSE]
             ELSE [route |-> route, status |-> 0, body |-> "", url |-> Null,
                   unhandledRejection |-> TRUE]
  /\ UNCHANGED <<now, issued, reportsData, embedRequestCounts, calls>>

\* what an observer has seen of the requests of a key that reached the
\* limiter: when the window observed was opened, and how many requests the
\* limiter let pass since
Passed(userEmail, t, allowed) ==
  LET one == IF allowed THEN 1 ELSE 0 IN
  IF userEmail \notin DOMAIN calls \/ t > calls[userEmail].opened + EMBED_RATE_WINDOW
    THEN [opened |-> t, passed |-> one]
    ELSE [calls[userEmail] EXCEPT !.passed = @ + one]

\* verifyJWT, the validation, the rate check and the start of the first fetch
\* of generatePowerBIEmbed
GenerateEmbedBegin(authorization, body) ==
  LET route == "POST /api/reports/generate-embed"
      req == [authorization |-> authorization, body |-> body]
      g == verifyJWT(authorization, now)
  IN  /\ IF ~g.next
           THEN /\ EmbedAnswered("part_001", route, req, g, g.status, g.body, FALSE, Null, NoCall)
                /\ UNCHANGED <<embedRequestCounts, calls, inflight>>
         ELSE IF ~Validated(body)
           THEN /\ EmbedAnswered("part_001", route, req, g, 400,
                                 "Missing embed parameters: reportId and datasetId are required",
                                 FALSE, Null, NoCall)
                /\ UNCHANGED <<embedRequestCounts, calls, inflight>>
         ELSE LET k == RateKey(g.user)
                  r == checkEmbedRateLimit(embedRequestCounts, k, now)
              IN  /\ embedRequestCounts' = r.counts
                  /\ calls' = [j \in DOMAIN calls \cup {k} |->
                                 IF j = k THEN Passed(k, now, r.allowed) ELSE calls[j]]
                  /\ IF ~r.allowed
                       THEN /\ EmbedAnswered("part_001", route, req, g, 429,
                                 "Rate limit exceeded. Please wait before generating more embed tokens.",
                                 TRUE, Null, NoCall)
                            /\ UNCHANGED inflight
                       ELSE /\ Len(inflight) < MaxInflight
                            /\ inflight' = Append(inflight,
                                 [route |-> route, req |-> req, g |-> g, awaiting |-> "token",
                                  got |-> [f \in {} |-> Null]])
                            /\ UNCHANGED resp
      /\ UNCHANGED <<now, issued, reportsData>>

\* the fetch after the one that was awaited
Following(awaiting) == IF awaiting = "token" THEN "embed" ELSE "report"

\* the awaited fetch settles with answer: the function goes on to its next
\* fetch, or returns or throws and the handler answers.  The answers that
\* were never awaited are filled in as successes, which the function does
\* not read.
GenerateEmbedResume(i, answer) ==
  LET e == inflight[i]
      got == [f \in DOMAIN e.got \cup {e.awaiting} |->
                IF f = e.awaiting THEN answer ELSE e.got[f]]
      o == [f \in {"token", "embed", "report"} |->
              IF f \in DOMAIN got THEN got[f]
              ELSE IF f = "embed" THEN Generated ELSE Details]
      body == e.req.body
      result == generatePowerBIEmbed(body.reportId, body.datasetId,
                                     OrElse(body, "sharedDatasetId", ""), o)
  IN  /\ e.route = "POST /api/reports/generate-embed"
      /\ IF answer.kind = "ok" /\ e.awaiting # "report"
           THEN /\ inflight' = [inflight EXCEPT ![i] =
                                  [e EXCEPT !.awaiting = Following(e.awaiting), !.got = got]]
                /\ UNCHANGED resp
           ELSE /\ inflight' = Drop(i)
                /\ IF result.value # Null
                     THEN EmbedAnswered("part_001", e.route, e.req, e.g, 200, "", TRUE, got, result)
                     ELSE EmbedAnswered("part_001", e.route, e.req, e.g, 500,
                                        "Failed to generate embed token or URL", TRUE, got, result)
      /\ UNCHANGED <<now, issued, reportsData, embedRequestCounts, calls>>

(***************************************************************************)
(* Requests of the environment                                             *)
(***************************************************************************)
Bearer == [raw |-> "Bearer"]

\* a token whose payload was altered after signing
Tampered(token) ==
  [token EXCEPT !.payload = [@ EXCEPT !.isAdmin = ~@, !.department = "Admin"]]

\* a token signed by somebody who does not hold JWT_SECRET
Forged(t) ==
  jwtSign([email |-> "admin@samunnati.com", department |-> "Admin", isAdmin |-> TRUE], "guess", t)

\* the authorization headers a client can send
Headers ==
  {<< >>, <<Bearer>>, <<Bearer, [raw |-> ""]>>, <<Bearer, [raw |-> "garbage"]>>,
   <<Bearer, Forged(now)>>}
  \cup {<<Bearer, e.token>> : e \in issued}
  \cup {<<e.token>> : e \in issued}
  \cup {<<Bearer, Tampered(e.token)>> : e \in issued}

Disks == {"ok", "fail"}

LoginBodies ==
  {[email |-> e, password |-> p] :
     e \in {"ADMIN@SAMUNNATI.COM", "admin@samunnati.com", "bhavya.khatri@gmail.com", "nobody@x.com", ""},
     p \in {"admin123", "Admin123", "password123", "wrongpass"}}
  \cup {[phone |-> ph, password |-> p] :
     ph \in {"9991110003", "9991110009"}, p \in {"password123", "wrongpass"}}
  \cup {[email |-> "", phone |-> "9991110003", password |-> "password123"],
        [email |-> "nobody@x.com", phone |-> "9991110003", password |-> "password123"],
        [email |-> "admin@samunnati.com"],
        [password |-> "wrongpass"],
        [password |-> "admin123"]}

Profiles ==
  {[mail |-> "Jane@Co.com", department |-> "Sales", displayName |-> "Jane"],
   [userPrincipalName |-> "A@X.com", isAdmin |-> TRUE, department |-> "Admin"],
   [mail |-> "", userPrincipalName |-> "admin@samunnati.com", isAdmin |-> TRUE],
   [error |-> "InvalidAuthenticationToken"]}

\* the profile endpoint answers an error body with a non-success status
SsoOutcomes(profiles) ==
  {[discover |-> "fail", exchange |-> "ok", graph |-> Null, ok |-> FALSE],
   [discover |-> "ok", exchange |-> "fail", graph |-> Null, ok |-> FALSE],
   [discover |-> "ok", exchange |-> "ok", graph |-> Null, ok |-> FALSE]}
  \cup {[discover |-> "ok", exchange |-> "ok", graph |-> p, ok |-> "error" \notin DOMAIN p] :
          p \in profiles}

DepartmentParams == {"Finance", "Sales", "%46inance", "100%"}

AuthInstants == Instants(0, MaxTtls)

Idle == resp = NoResponse

(***************************************************************************)
(* Specification of the two login paths                                    *)
(***************************************************************************)
NextLogin ==
  \/ Tick(AuthInstants)
  \/ Deliver
  \/ Idle /\ \E body \in LoginBodies : ManualLogin(body)
  \/ Idle /\ \E o \in SsoOutcomes(Profiles) : SsoCallback(o)

SpecLogin == Init /\ [][NextLogin]_vars

(***************************************************************************)
(* Specification of the protected report and administration routes         *)
(***************************************************************************)
RouteLogins ==
  {[email |-> "admin@samunnati.com", password |-> "admin123"],
   [phone |-> "9991110003", password |-> "password123"],
   [email |-> "nobody@x.com", password |-> "admin123"]}

RouteProfiles == {[mail |-> "Jane@Co.com", department |-> "Sales", displayName |-> "Jane"]}

NextRoutes ==
  \/ Tick(AuthInstants)
  \/ Deliver
  \/ Idle /\ \E body \in RouteLogins : ManualLogin(body)
  \/ Idle /\ \E o \in SsoOutcomes(RouteProfiles) : SsoCallback(o)
  \/ Idle /\ \E h \in Headers, param \in DepartmentParams, disk \in Disks : DeptReports(h, param, disk)
  \/ Idle /\ \E h \in Headers, disk \in Disks : GetDepartments(h, disk)
  \/ Idle /\ \E h \in Headers, disk \in Disks : GetAdminReports(h, disk)
  \/ Idle /\ \E h \in Headers, disk \in Disks : GetAllReports(h, disk)
  \/ Idle /\ \E h \in Headers, disk \in Disks : GetStats(h, disk)
  \/ Idle /\ \E h \in Headers, disk \in Disks,
               body \in {[departmentName |-> "HR"], [departmentName |-> "Sales"], [other |-> ""]} :
       AddDepartment(h, body, disk)
  \/ Idle /\ \E h \in Headers, disk \in Disks, d \in {"Sales", "HR"} : DeleteDepartment(h, d, disk)
  \/ Idle /\ \E h \in Headers, disk \in Disks, data \in {InitialReports, Null} : PutReports(h, data, disk)
  \/ Idle /\ \E h \in Headers, disk \in Disks, d \in {"Finance", "HR"}, id \in {"r1", "r9"} :
       PutReport(h, d, id, [isActive |-> FALSE], disk)

SpecRoutes == Init /\ [][NextRoutes]_vars

(***************************************************************************)
(* Specification of the rate limiter                                       *)
(***************************************************************************)
RateKeys == {"admin@samunnati.com", "bhavya.khatri@gmail.com"}

RateInstants == Instants(MaxWindows, 0)

NextRate ==
  \/ Tick(RateInstants)
  \/ Deliver
  \/ Idle /\ \E k \in RateKeys : RateCheck(k)

SpecRate == Init /\ [][NextRate]_vars

(***************************************************************************)
(* Specification of the rate limiter, observed by the times of the allowed *)
(* calls                                                                   *)
(***************************************************************************)
NextMinute ==
  \/ Tick(RateInstants)
  \/ Deliver
  \/ Idle /\ \E k \in RateKeys : RateCheckTimed(k)

SpecMinute == Init /\ [][NextMinute]_vars

(***************************************************************************)
(* Specification of the identity resolution of the SSO callbacks           *)
(***************************************************************************)
ResolveProfiles ==
  {[f \in {} |-> ""],
   [mail |-> "A@X.com"],
   [mail |-> "Bhavya@Samunnati.com"],
   [mail |-> "", userPrincipalName |-> "John.Doe@Company.com", displayName |-> "John"],
   [mail |-> "Jane@Co.com", department |-> "Sales", displayName |-> "Jane"],
   [userPrincipalName |-> "name2@gmail.com", department |-> "Operations", displayName |-> ""]}

NextResolve ==
  \/ Tick(AuthInstants)
  \/ Deliver
  \/ Idle /\ \E o \in SsoOutcomes(ResolveProfiles) : SsoCallback(o)
  \/ Idle /\ \E o \in SsoOutcomes(ResolveProfiles) : SsoCallbackMapped(o)

SpecResolve == Init /\ [][NextResolve]_vars

(***************************************************************************)
(* Specification of the embed routes                                       *)
(***************************************************************************)
EmbedLogins ==
  {[email |-> "admin@samunnati.com", password |-> "admin123"],
   [phone |-> "9991110003", password |-> "password123"]}

EmbedHeaders ==
  {<< >>, <<Bearer, [raw |-> "garbage"]>>} \cup {<<Bearer, e.token>> : e \in issued}

EmbedBodies ==
  {[reportId |-> "r3", datasetId |-> "d3"],
   [reportId |-> "r1", datasetId |-> "d1", sharedDatasetId |-> "d2"],
   [reportId |-> "r1", datasetId |-> "d1", sharedDatasetId |-> "d1"],
   [reportId |-> "r1", datasetId |-> "d1", sharedDatasetId |-> ""],
   [reportId |-> "", datasetId |-> "d1"],
   [reportId |-> "r1"]}

CoreBodies ==
  {[reportId |-> "r1", datasetId |-> "d1", coreDatasetId |-> "d2"],
   [reportId |-> "r1", datasetId |-> "d1"]}

\* one instant per rate window, each just past the end of the window before
EmbedInstants == {w * (EMBED_RATE_WINDOW + 1) : w \in 0..MaxWindows}

NextEmbed ==
  \/ Tick(EmbedInstants)
  \/ Deliver
  \/ Idle /\ \E body \in EmbedLogins : ManualLogin(body)
  \/ Idle /\ \E h \in EmbedHeaders, body \in EmbedBodies : GenerateEmbed(h, body)
  \/ Idle /\ \E h \in EmbedHeaders, body \in EmbedBodies : AdminGenerateEmbed(h, body)
  \/ Idle /\ \E h \in EmbedHeaders, body \in CoreBodies : GenerateEmbedCore(h, body)
  \/ Idle /\ \E h \in EmbedHeaders, body \in CoreBodies : AdminGenerateEmbedCore(h, body)

SpecEmbed == Init /\ [][NextEmbed]_vars

(***************************************************************************)
(* Specification of concurrent requests: the handlers that await, taken    *)
(* one stretch at a time                                                   *)
(***************************************************************************)
AsyncLogins == {[phone |-> "9991110003", password |-> "password123"]}

AsyncHeaders == {<< >>} \cup {<<Bearer, e.token>> : e \in issued}

AsyncBodies == {[reportId |-> "r1", datasetId |-> "d1"], [reportId |-> "r1"]}

\* the ways an awaited fetch of generatePowerBIEmbed can settle
AnswersTo(awaiting) == {o[awaiting] : o \in ProviderOutcomes}

NextAsync ==
  \/ Tick(EmbedInstants)
  \/ Deliver
  \/ Idle /\ \E body \in AsyncLogins : ManualLogin(body)
  \/ Idle /\ \E o \in SsoOutcomes({}) : SsoCallback(o)
  \/ Idle /\ LoginUrlBegin
  \/ Idle /\ \E i \in 1..Len(inflight), answer \in {"ok", "fail"}, forwarded \in BOOLEAN :
       LoginUrlResume(i, answer, forwarded)
  \/ Idle /\ \E h \in AsyncHeaders, body \in AsyncBodies : GenerateEmbedBegin(h, body)
  \/ Idle /\ \E i \in {j \in 1..Len(inflight) : inflight[j].awaiting # "discover"} :
       \E answer \in AnswersTo(inflight[i].awaiting) : GenerateEmbedResume(i, answer)

SpecAsync == Init /\ [][NextAsync]_vars

(***************************************************************************)
(* Specification of the server as a whole: every kind of operation, with   *)
(* few inputs each                                                         *)
(***************************************************************************)
ServerProfiles ==
  {[mail |-> "Bhavya.Khatri@gmail.com", department |-> "Finance", displayName |-> "Bhavya"]}

ServerBodies == {[reportId |-> "r3", datasetId |-> "d3"]}

NextServer ==
  \/ Tick(EmbedInstants)
  \/ Deliver
  \/ Idle /\ \E body \in EmbedLogins : ManualLogin(body)
  \/ Idle /\ \E o \in SsoOutcomes(ServerProfiles) : SsoCallback(o)
  \/ Idle /\ \E h \in AsyncHeaders : DeptReports(h, "Finance", "ok")
  \/ Idle /\ \E h \in AsyncHeaders : PutReport(h, "Finance", "r1", [isActive |-> FALSE], "ok")
  \/ Idle /\ \E h \in AsyncHeaders, body \in ServerBodies : GenerateEmbed(h, body)
  \/ Idle /\ \E h \in AsyncHeaders, body \in ServerBodies : AdminGenerateEmbed(h, body)

SpecServer == Init /\ [][NextServer]_vars

(***************************************************************************)
(* Properties of the authorization middleware                              *)
(***************************************************************************)
AdminRoutes ==
  {"GET /api/admin/departments", "POST /api/admin/departments",
   "DELETE /api/admin/departments/:departmentName", "GET /api/admin/reports",
   "GET /api/admin/all-reports", "PUT /api/admin/reports",
   "PUT /api/admin/reports/:department/:reportId", "GET /api/admin/stats"}

ProtectedRoutes == AdminRoutes \cup {"GET /api/reports/:department"}

\* this step handled a request to one of the routes
Handled(routes) == resp = NoResponse /\ resp'.route \in routes

\* the request carried a token part
HasToken(authorization) ==
  Len(authorization) >= 2 /\ authorization[2] # [raw |-> ""]

\* the token part is a token this server signed and its expiry has not passed
Genuine(authorization) ==
  /\ HasToken(authorization)
  /\ \E e \in issued : /\ e.token = authorization[2]
                       /\ now \div 1000 < e.token.payload.exp

\* C1: an admin route's handler runs only for a genuine, unexpired token whose
\* isAdmin claim is true; without a token the answer is 401, with a bad token
\* 403 'Invalid token', with a genuine non-admin token 403 'Admin only', and in
\* these three cases the handler neither reads nor writes the report data.
C1_Step ==
  Handled(AdminRoutes) =>
    LET r == resp'
        h == r.req.authorization
        admin == Genuine(h) /\ h[2].payload.isAdmin
    IN  /\ r.handler => admin
        /\ ~HasToken(h) => r.status = 401
        /\ (HasToken(h) /\ ~Genuine(h)) => (r.status = 403 /\ r.body = "Invalid token")
        /\ (Genuine(h) /\ ~admin) => (r.status = 403 /\ r.body = "Admin only")
        /\ ~admin => (~r.handler /\ ~r.read /\ ~r.wrote /\ reportsData' = reportsData)

C1_AdminOnly == [][C1_Step]_vars

C1_Witness ==
  /\ resp.route = "PUT /api/admin/reports"
  /\ resp.status = 403
  /\ resp.body = "Admin only"
  /\ Genuine(resp.req.authorization)

\* the department a request asks for
Requested(param) ==
  IF decodeURIComponent(param) = Null THEN param ELSE decodeURIComponent(param).text

\* C2: GET /api/reports/:department returns report data only to a genuine token
\* of that department or of an admin; a genuine non-admin token of another
\* department gets 403 'Access denied' and no data; a genuine admin token is
\* allowed whatever department is requested.
C2_Step ==
  Handled({"GET /api/reports/:department"}) =>
    LET r == resp'
        h == r.req.authorization
        dept == Requested(r.req.department)
    IN  /\ r.data # Null =>
             (Genuine(h) /\ (h[2].payload.isAdmin \/ h[2].payload.department = dept))
        /\ (Genuine(h) /\ ~h[2].payload.isAdmin /\ h[2].payload.department # dept) =>
             (r.status = 403 /\ r.body = "Access denied" /\ r.data = Null)
        /\ (Genuine(h) /\ h[2].payload.isAdmin) => (r.status = 200 /\ r.data # Null)

C2_DeptScoped == [][C2_Step]_vars

\* C3: a request without authorization header, or whose header has no token
\* part, is answered 401 'Token required'; no identity is attached and the
\* route handler is not invoked.
C3_Step ==
  Handled(ProtectedRoutes) =>
    LET r == resp' IN
    ~HasToken(r.req.authorization) =>
      (r.status = 401 /\ r.body = "Token required" /\ r.user = Null /\ ~r.handler)

C3_MissingToken == [][C3_Step]_vars

C3_Witness ==
  /\ resp.route \in ProtectedRoutes
  /\ resp.req.authorization = <<Bearer>>
  /\ resp.status = 401

\* C4: a request whose token does not decode (malformed, bad signature or
\* expired) is answered 403 with one and the same body; no identity is attached
\* and the route handler is not invoked.
C4_Step ==
  Handled(ProtectedRoutes) =>
    LET r == resp'
        h == r.req.authorization
    IN  (HasToken(h) /\ ~Genuine(h)) =>
          (r.status = 403 /\ r.body = "Invalid token" /\ r.user = Null /\ ~r.handler)

C4_InvalidToken == [][C4_Step]_vars

\* an expired token of the server's own making was refused
C4_Witness ==
  /\ resp.route \in ProtectedRoutes
  /\ resp.status = 403
  /\ \E e \in issued : /\ resp.req.authorization = <<Bearer, e.token>>
                       /\ now \div 1000 >= e.token.payload.exp

(***************************************************************************)
(* Properties of the login paths                                           *)
(***************************************************************************)
\* the identifier and password a manual-login body supplies
Supplied(body) ==
  IF "email" \in DOMAIN body /\ body.email # "" THEN body.email
  ELSE IF "phone" \in DOMAIN body /\ body.phone # "" THEN body.phone
  ELSE ""

\* the registry entries that the body's identifier and password match
Matching(body) ==
  {i \in 1..Len(userDatabase) :
     /\ \/ toLowerCase(userDatabase[i].email) = toLowerCase(Supplied(body))
        \/ userDatabase[i].phone = toLowerCase(Supplied(body))
     /\ "password" \in DOMAIN body
     /\ userDatabase[i].password = body.password}

First(S) == CHOOSE i \in S : \A j \in S : i <= j

\* C5: a token with isAdmin = true is issued only by a manual login that
\* matched a registry entry whose isAdmin is true; every token issued by the
\* SSO callback has isAdmin = false, whatever the profile contains.
C5_AdminOnlyFromRegistry ==
  /\ \A e \in issued :
       e.token.payload.isAdmin =>
         /\ e.via = "manual"
         /\ \E i \in 1..Len(userDatabase) :
              userDatabase[i].isAdmin /\ userDatabase[i].email = e.token.payload.email
  /\ (resp.route = "GET /auth/callback" /\ resp.token # Null) =>
       resp.token.payload.isAdmin = FALSE
  /\ (resp.route = "POST /auth/manual-login" /\ resp.token # Null /\ resp.token.payload.isAdmin) =>
       \E i \in Matching(resp.req) : userDatabase[i].isAdmin

\* the provider's profile claimed isAdmin and a token was issued for it
C5_Witness ==
  /\ resp.route = "GET /auth/callback"
  /\ resp.status = 302
  /\ "isAdmin" \in DOMAIN resp.req.graph
  /\ resp.token.payload.email = "admin@samunnati.com"
  /\ \E e \in issued : e.token = resp.token /\ e.via = "sso"

\* C6: manual login succeeds exactly when some registry entry matches the
\* identifier (case-insensitive email, or phone) and the password (exact); the
\* token then carries email, department and isAdmin of the first such entry.
C6_FirstMatchingEntry ==
  resp.route = "POST /auth/manual-login" =>
    LET M == Matching(resp.req) IN
    /\ resp.status = 200 <=> M # {}
    /\ resp.token # Null <=> M # {}
    /\ M # {} =>
         LET u == userDatabase[First(M)]
             p == resp.token.payload
         IN  p.email = u.email /\ p.department = u.department /\ p.isAdmin = u.isAdmin

C6_Witness ==
  /\ resp.route = "POST /auth/manual-login"
  /\ resp.req = [email |-> "ADMIN@SAMUNNATI.COM", password |-> "admin123"]
  /\ resp.status = 200
  /\ resp.token.payload.isAdmin

\* C7: every failing manual login gets the same response, 401 'Invalid
\* credentials' and no token, whether the identifier is unknown or the
\* password is wrong.
C7_UniformFailure ==
  (resp.route = "POST /auth/manual-login" /\ Matching(resp.req) = {}) =>
    /\ resp.status = 401
    /\ resp.body = "Invalid credentials"
    /\ resp.token = Null

\* a registered identifier with a wrong password was refused
C7_Witness ==
  /\ resp.route = "POST /auth/manual-login"
  /\ resp.req = [email |-> "admin@samunnati.com", password |-> "wrongpass"]
  /\ resp.status = 401

(***************************************************************************)
(* Properties of the rate limiter                                          *)
(***************************************************************************)
\* this step was a call of the limiter for key k
Called(k) == resp = NoResponse /\ resp'.route = "checkEmbedRateLimit" /\ resp'.key = k

\* C8: counted from a key's first call, the first 10 calls within the window
\* are allowed and every further call within it is denied; the first call
\* after the window has elapsed is allowed again.
C8_Step ==
  \A k \in RateKeys :
    Called(k) =>
      LET seen == calls'[k] IN
      /\ now < seen.first + 60000 =>
           (resp'.allowed <=> seen.n <= 10)
      /\ (now > seen.first + 60000 /\ seen.after = 1) => resp'.allowed

C8_TenPerWindow == [][C8_Step]_vars

\* the 11th call inside the first window was answered
C8_Witness ==
  /\ resp.route = "checkEmbedRateLimit"
  /\ calls[resp.key].n = 11
  /\ now < calls[resp.key].first + 60000
  /\ ~resp.allowed

\* C9: a call without counter, or after the counter's window has elapsed, sets
\* the counter to {count: 1, windowResetAt: now + 60 s} and allows; a call
\* inside a live window with count < 10 adds exactly 1 to count, keeps
\* windowResetAt and allows.
C9_Step ==
  \A k \in RateKeys :
    Called(k) =>
      LET old == embedRequestCounts
          new == embedRequestCounts'
      IN  /\ (k \notin DOMAIN old \/ now > old[k].resetTime) =>
               /\ new[k] = [count |-> 1, resetTime |-> now + 60000]
               /\ resp'.allowed
          /\ (k \in DOMAIN old /\ now <= old[k].resetTime /\ old[k].count < 10) =>
               /\ new[k] = [count |-> old[k].count + 1, resetTime |-> old[k].resetTime]
               /\ resp'.allowed

C9_ResetOrIncrement == [][C9_Step]_vars

\* a counter whose window had elapsed was reset
C9_Witness ==
  /\ resp.route = "checkEmbedRateLimit"
  /\ calls[resp.key].n > 1
  /\ embedRequestCounts[resp.key] = [count |-> 1, resetTime |-> now + 60000]

\* C10: a denied call leaves the counters as they were: count is not
\* incremented and windowResetAt is not extended.
C10_Step ==
  \A k \in RateKeys :
    (Called(k) /\ ~resp'.allowed) =>
      /\ embedRequestCounts' = embedRequestCounts
      /\ embedRequestCounts[k].count >= 10
      /\ now <= embedRequestCounts[k].resetTime

C10_DeniedUnchanged == [][C10_Step]_vars

\* a second denial in a row
C10_Witness ==
  /\ resp.route = "checkEmbedRateLimit"
  /\ ~resp.allowed
  /\ calls[resp.key].n = 12

(***************************************************************************)
(* Properties of the embed routes                                          *)
(***************************************************************************)
EmbedRoutes == {"POST /api/reports/generate-embed", "POST /api/admin/generate-embed"}

\* this step handled a request to an embed route of the given server
EmbedStep(server) ==
  resp = NoResponse /\ resp'.route \in EmbedRoutes /\ resp'.server = server

\* the middleware of the route lets the request through
Admitted(route, authorization) ==
  /\ Genuine(authorization)
  /\ route = "POST /api/admin/generate-embed" => authorization[2].payload.isAdmin

\* the body names a report and a dataset
Complete(body) ==
  /\ "reportId" \in DOMAIN body /\ body.reportId # ""
  /\ "datasetId" \in DOMAIN body /\ body.datasetId # ""

\* the key has used up its quota in the current window
Exhausted(k) ==
  /\ k \in DOMAIN embedRequestCounts
  /\ now <= embedRequestCounts[k].resetTime
  /\ embedRequestCounts[k].count >= 10

\* C11: a generate-embed request with reportId and datasetId whose caller's
\* email has used up its quota in the current window is answered 429 and
\* makes no outbound call; the limiter key is the email claim of the presented
\* token: the request is refused exactly when that key is exhausted, and no
\* other key's counter is touched.
C11_Step ==
  EmbedStep("part_001") =>
    LET r == resp'
        h == r.req.authorization
    IN  (Admitted(r.route, h) /\ Complete(r.req.body)) =>
          LET k == h[2].payload.email IN
          /\ Exhausted(k) =>
               /\ r.status = 429
               /\ r.outbound = << >>
               /\ embedRequestCounts' = embedRequestCounts
          /\ ~Exhausted(k) => (r.status # 429 /\ r.outbound # << >>)
          /\ DOMAIN embedRequestCounts' = DOMAIN embedRequestCounts \cup {k}
          /\ \A j \in DOMAIN embedRequestCounts \ {k} :
               embedRequestCounts'[j] = embedRequestCounts[j]

C11_RateLimited == [][C11_Step]_vars

\* a caller was refused while another caller still had quota
C11_Witness ==
  /\ resp.route \in EmbedRoutes
  /\ resp.server = "part_001"
  /\ resp.status = 429
  /\ \E j \in DOMAIN embedRequestCounts :
       j # resp.user.email /\ embedRequestCounts[j].count < 10

\* C12: a generate-embed request whose reportId or datasetId is missing or
\* empty is answered 400 without side effect: no outbound call is made, the
\* limiter is not consulted and the counters stay as they were.
C12_Step ==
  EmbedStep("part_001") =>
    LET r == resp' IN
    (Admitted(r.route, r.req.authorization) /\ ~Complete(r.req.body)) =>
      /\ r.status = 400
      /\ r.outbound = << >>
      /\ ~r.checked
      /\ embedRequestCounts' = embedRequestCounts

C12_InvalidRequest == [][C12_Step]_vars

\* a caller with a live counter sent a body with an empty reportId
C12_Witness ==
  /\ resp.route \in EmbedRoutes
  /\ resp.server = "part_001"
  /\ resp.status = 400
  /\ resp.req.body.reportId = ""
  /\ resp.user.email \in DOMAIN embedRequestCounts

\* C13: on every embed route of every server, outbound calls are made only
\* after the rate-limit check allowed the request and consumed quota of the
\* caller.
C13_Step ==
  (resp = NoResponse /\ resp'.route \in EmbedRoutes) =>
    (resp'.outbound # << >> =>
       /\ resp'.checked
       /\ resp'.user.email \in DOMAIN embedRequestCounts'
       /\ embedRequestCounts' # embedRequestCounts)

C13_LimitedBeforeProvider == [][C13_Step]_vars

\* the set of elements of a sequence
Range(seq) == {seq[i] : i \in 1..Len(seq)}

\* C14: every credential-generation request names exactly the primary dataset,
\* plus the secondary one if and only if it is provided and differs from the
\* primary, without duplicates; its effective identities cover exactly the
\* same datasets, each once, all with the same username and the same single
\* role.
C14_Step ==
  EmbedStep("part_001") =>
    \A c \in Range(resp'.outbound) :
      c.to = "GenerateToken" =>
        LET b == resp'.req.body
            primary == b.datasetId
            secondary == IF "sharedDatasetId" \in DOMAIN b THEN b.sharedDatasetId ELSE ""
            want == IF secondary # "" /\ secondary # primary
                      THEN {primary, secondary} ELSE {primary}
            named == c.body.datasets
            ids == c.body.identities
        IN  /\ {d.id : d \in Range(named)} = want
            /\ Len(named) = Cardinality(want)
            /\ UNION {Range(i.datasets) : i \in Range(ids)} = want
            /\ Len(ids) = Cardinality(want)
            /\ \A i \in Range(ids) :
                 /\ Len(i.datasets) = 1
                 /\ i.username = "saineeraj.kumar@samunnati.com"
                 /\ i.roles = <<"RM">>

C14_DatasetsCovered == [][C14_Step]_vars

\* a request with a distinct secondary dataset reached GenerateToken
C14_Witness ==
  /\ resp.route \in EmbedRoutes
  /\ resp.server = "part_001"
  /\ resp.req.body = [reportId |-> "r1", datasetId |-> "d1", sharedDatasetId |-> "d2"]
  /\ Len(resp.outbound) >= 2
  /\ Len(resp.outbound[2].body.datasets) = 2

\* sub occurs in s
Contains(s, sub) ==
  \E i \in 1..(Len(s) - Len(sub) + 1) : SubSeq(s, i, i + Len(sub) - 1) = sub

\* the error text that a non-success answer of the provider carries
ProviderText(answer) ==
  IF "raw" \in DOMAIN answer.text THEN answer.text.raw
  ELSE IF "error" \in DOMAIN answer.text.json /\ "message" \in DOMAIN answer.text.json.error
    THEN answer.text.json.error.message
  ELSE ""

\* C20: when the visualization provider refuses the credential-generation
\* request, the response to the caller carries the provider's error text where
\* the provider supplied one, and a generic failure message only when it did
\* not.
C20_Step ==
  EmbedStep("part_001") =>
    LET r == resp' IN
    (r.provider # Null /\ r.provider.token.kind = "ok" /\ r.provider.embed.kind = "status") =>
      LET text == ProviderText(r.provider.embed) IN
      /\ r.status = 500
      /\ text # "" => Contains(r.body, text)
      /\ text = "" => r.body \in {"Failed to generate embed token or URL",
                                  "Failed to generate embed details"}

C20_ProviderTextSurfaced == [][C20_Step]_vars

(***************************************************************************)
(* Properties of the SSO callback                                          *)
(***************************************************************************)
\* C15: when the code exchange or the profile fetch of /auth/callback fails,
\* a non-success answer of the profile endpoint included, the response is the
\* generic 500 'Authentication failed.', no token is signed and no redirect
\* carrying a token is sent.
C15_FailureIsGeneric ==
  (/\ resp.route = "GET /auth/callback"
   /\ \/ resp.req.discover # "ok"
      \/ resp.req.exchange # "ok"
      \/ resp.req.graph = Null
      \/ ~resp.req.ok) =>
    /\ resp.status = 500
    /\ resp.body = "Authentication failed."
    /\ resp.token = Null

\* the profile has a non-empty field f
Present(profile, f) == f \in DOMAIN profile /\ profile[f] # ""

\* the fallback table of the callback that answered (none in the latest one)
FallbackOf(r) == IF "fallback" \in DOMAIN r THEN r.fallback ELSE [e \in {} |-> ""]

\* C16: for every profile, whichever fields are absent, the callback resolves
\* email = lowercase(mail, else userPrincipalName, else ""), department =
\* profile.department, else the fallback table's entry for that email, else
\* "IT", displayName = profile.displayName, else "User"; the resolution never
\* fails, and these are the claims of the token that is issued.
C16_Resolved ==
  (resp.route = "GET /auth/callback" /\ resp.req.exchange = "ok" /\ resp.req.graph # Null
     /\ ("fallback" \in DOMAIN resp \/ resp.req.discover = "ok")) =>
    LET profile == resp.req.graph
        table == FallbackOf(resp)
        email == toLowerCase(IF Present(profile, "mail") THEN profile.mail
                             ELSE IF Present(profile, "userPrincipalName")
                               THEN profile.userPrincipalName
                             ELSE "")
        department == IF Present(profile, "department") THEN profile.department
                      ELSE IF email \in DOMAIN table THEN table[email]
                      ELSE "IT"
        displayName == IF Present(profile, "displayName") THEN profile.displayName ELSE "User"
    IN  /\ resp.status = 302
        /\ resp.token # Null
        /\ resp.token.payload.email = email
        /\ resp.token.payload.department = department
        /\ resp.token.payload.name = displayName

\* a profile without department was resolved through the fallback table
C16_Witness ==
  /\ resp.route = "GET /auth/callback"
  /\ resp.req.graph = [mail |-> "Bhavya@Samunnati.com"]
  /\ "fallback" \in DOMAIN resp
  /\ resp.status = 302
  /\ resp.token.payload.email = "bhavya@samunnati.com"
  /\ resp.token.payload.department = "Finance"
  /\ resp.token.payload.name = "User"

(***************************************************************************)
(* Properties of the session tokens                                        *)
(***************************************************************************)
\* the request presented token e.token as Bearer
Presented(r, e) == r.req.authorization = <<Bearer, e.token>>

\* C17: when a token issued by either login path is presented before its
\* expiry, the identity that verifyJWT attaches to the request has exactly the
\* email, department, isAdmin, and name if there is one, that were signed.
C17_Step ==
  Handled(ProtectedRoutes) =>
    \A e \in issued :
      (Presented(resp', e) /\ now \div 1000 < e.token.payload.exp) =>
        /\ resp'.user # Null
        /\ DOMAIN resp'.user \ {"iat", "exp"} = DOMAIN e.claims
        /\ \A f \in DOMAIN e.claims : resp'.user[f] = e.claims[f]

LoginRoutes == {"POST /auth/manual-login", "GET /auth/callback"}

\* C18: both login paths give the token an expiry of issue time + 2 hours; a
\* token presented 2 hours or more after its issue is rejected; no step hands
\* out a token with a later expiry or changes a token that was handed out.
C18_Step ==
  /\ \A e \in issued' :
       /\ e.token.payload.iat = e.at \div 1000
       /\ e.token.payload.exp = e.token.payload.iat + 7200
  /\ issued \subseteq issued'
  /\ (resp = NoResponse /\ "token" \in DOMAIN resp' /\ resp'.token # Null) =>
       /\ resp'.route \in LoginRoutes
       /\ resp'.token.payload.exp = (now \div 1000) + 7200
  /\ Handled(ProtectedRoutes) =>
       \A e \in issued :
         (Presented(resp', e) /\ now >= e.at + 7200000) =>
           (resp'.status = 403 /\ resp'.user = Null /\ ~resp'.handler)

C19_Step ==
  Handled(ProtectedRoutes) =>
    \A e \in issued :
      (Presented(resp', e) /\ e.at <= now /\ now < e.at + 7200000) =>
        resp'.user # Null

C19_AcceptedForTwoHours == [][C19_Step]_vars

\* C19, amended: a token issued at time t0 is accepted by verifyJWT at every
\* time t whose whole second lies before floor(t0 / 1000) + 7200, whatever
\* happened in between, and at no other time.
C19_AmendedStep ==
  Handled(ProtectedRoutes) =>
    \A e \in issued :
      Presented(resp', e) =>
        (resp'.user # Null <=> now \div 1000 < (e.at \div 1000) + 7200)

C19_AcceptedUntilExpiry == [][C19_AmendedStep]_vars

\* a token was accepted after another login and a change of the report data
C19_Witness ==
  /\ resp.route \in ProtectedRoutes
  /\ resp.user # Null
  /\ reportsData # InitialReports
  /\ \E e \in issued :
       /\ Presented(resp, e)
       /\ \E d \in issued : d.token # e.token /\ d.at >= e.at

(***************************************************************************)
(* Properties of the requests that await outbound calls                    *)
(***************************************************************************)
CoreRoutes ==
  {"GET /auth/login-url", "GET /auth/callback", "POST /auth/manual-login",
   "POST /api/reports/generate-embed"}

\* this step ended a request to a core endpoint: it wrote a response, or a
\* suspended request left the server
Ended ==
  /\ resp = NoResponse
  /\ \/ resp' # NoResponse /\ resp'.route \in CoreRoutes
     \/ Len(inflight') < Len(inflight)

\* C21: every request to a core endpoint receives exactly one response, also
\* when an outbound call it depends on fails: whenever such a request ends, a
\* response with an HTTP status has been written for it, and no failure is
\* left unhandled.
C21_Step ==
  Ended =>
    /\ resp'.route \in CoreRoutes
    /\ resp'.status \in 100..599
    /\ "unhandledRejection" \in DOMAIN resp' => ~resp'.unhandledRejection

C21_AlwaysAnswered == [][C21_Step]_vars

(***************************************************************************)
(* Further properties of the rate limiter                                  *)
(***************************************************************************)
\* C22: in every reachable state every entry of embedRequestCounts has
\* 1 <= count <= 10.
C22_CountInRange ==
  \A k \in DOMAIN embedRequestCounts :
    /\ embedRequestCounts[k].count >= 1
    /\ embedRequestCounts[k].count <= EMBED_RATE_LIMIT

\* a call was denied at the ceiling while the other key's counter had just
\* been reset
C22_Witness ==
  /\ resp.route = "checkEmbedRateLimit"
  /\ ~resp.allowed
  /\ embedRequestCounts[resp.key].count = EMBED_RATE_LIMIT
  /\ \E j \in DOMAIN embedRequestCounts :
       /\ embedRequestCounts[j].count = 1
       /\ embedRequestCounts[j].resetTime > EMBED_RATE_WINDOW + MaxSkew

\* C25: for every key and every time interval of 60 seconds, at most 10 of
\* the calls for the key that fall in the interval are allowed.
C25_TenPerMinute ==
  \A k \in DOMAIN calls : Len(calls[k].recent) <= EMBED_RATE_LIMIT

\* C30: a call at time t is counted against the key's existing window exactly
\* when t <= resetTime, and resets the counter exactly when t > resetTime; the
\* resetTime of a counter is the time of the call that opened its window plus
\* 60 000 ms.
C30_Step ==
  \A k \in RateKeys :
    (Called(k) /\ k \in DOMAIN embedRequestCounts) =>
      LET old == embedRequestCounts[k]
          new == embedRequestCounts'[k]
      IN  /\ now <= old.resetTime =>
               /\ new.resetTime = old.resetTime
               /\ resp'.allowed <=> old.count < EMBED_RATE_LIMIT
               /\ new.count = IF resp'.allowed THEN old.count + 1 ELSE old.count
          /\ now > old.resetTime =>
               /\ new = [count |-> 1, resetTime |-> now + EMBED_RATE_WINDOW]
               /\ resp'.allowed

C30_BoundaryInclusive == [][C30_Step]_vars

\* a call at exactly resetTime was denied
C30_Witness ==
  /\ resp.route = "checkEmbedRateLimit"
  /\ ~resp.allowed
  /\ now = embedRequestCounts[resp.key].resetTime

(***************************************************************************)
(* Properties of concurrent generate-embed requests                        *)
(***************************************************************************)
\* the suspended generate-embed requests of a caller
InFlightOf(userEmail) ==
  {i \in 1..Len(inflight) : "g" \in DOMAIN inflight[i] /\ inflight[i].g.user.email = userEmail}

\* C23: under every interleaving of concurrent generate-embed requests of one
\* identity, at most 10 of them pass the rate check within one window: the
\* counter equals the number of requests that passed since the window was
\* opened, so no increment is lost.
C23_NoLostIncrement ==
  \A k \in DOMAIN calls :
    /\ calls[k].passed <= EMBED_RATE_LIMIT
    /\ k \in DOMAIN embedRequestCounts
    /\ embedRequestCounts[k].resetTime = calls[k].opened + EMBED_RATE_WINDOW
    /\ embedRequestCounts[k].count = calls[k].passed

\* a request was refused while two earlier requests of the same caller were
\* suspended at different fetches
C23_Witness ==
  /\ resp.route = "POST /api/reports/generate-embed"
  /\ resp.status = 429
  /\ \E i, j \in InFlightOf(resp.user.email) : inflight[i].awaiting # inflight[j].awaiting

(***************************************************************************)
(* Frame of the rate-limit map                                             *)
(***************************************************************************)
\* this step ran checkEmbedRateLimit for a request to an embed route
Limited == resp = NoResponse /\ resp'.route \in EmbedRoutes /\ resp'.checked

\* C24: a rate check for key k1 neither reads nor changes the counter of any
\* other key: the other counters stay as they are and the request is refused
\* exactly when k1's own counter is exhausted; no other operation (login, SSO
\* callback, token verification, report and administration routes, the clock)
\* changes the rate-limit map.
C24_Step ==
  IF Limited
    THEN LET k1 == resp'.user.email IN
         /\ DOMAIN embedRequestCounts' = DOMAIN embedRequestCounts \cup {k1}
         /\ \A k2 \in DOMAIN embedRequestCounts \ {k1} :
              embedRequestCounts'[k2] = embedRequestCounts[k2]
         /\ resp'.status = 429 <=> Exhausted(k1)
    ELSE embedRequestCounts' = embedRequestCounts

C24_Frame == [][C24_Step]_vars

\* a caller's window was opened while another caller's counter stood above 1,
\* after an SSO login and a change of the report data
C24_Witness ==
  /\ resp.route \in EmbedRoutes
  /\ resp.checked
  /\ embedRequestCounts[resp.user.email].count = 1
  /\ \E k2 \in DOMAIN embedRequestCounts :
       k2 # resp.user.email /\ embedRequestCounts[k2].count > 1
  /\ \E e \in issued : e.via = "sso"
  /\ reportsData # InitialReports

(***************************************************************************)
(* Further properties of the embed routes                                  *)
(***************************************************************************)
\* this step handled a request to an embed route and called the provider
Generating == resp = NoResponse /\ resp'.route \in EmbedRoutes /\ resp'.provider # Null

\* C26: generatePowerBIEmbed calls the service-token endpoint, then
\* GenerateToken, then the report-detail lookup, each only if the call before
\* it succeeded; the response is 200 with the embed token (and the embed URL
\* the provider returned) only if all three succeeded, and otherwise 500 with
\* neither a token nor a URL.
C26_Step ==
  Generating =>
    LET r == resp'
        o == r.provider
        out == r.outbound
        ok1 == o.token.kind = "ok"
        ok2 == o.embed.kind = "ok"
        ok3 == o.report.kind = "ok"
    IN  /\ Len(out) = IF ~ok1 THEN 1 ELSE IF ~ok2 THEN 2 ELSE 3
        /\ out[1].to = "oauth2/v2.0/token"
        /\ Len(out) >= 2 => out[2].to = "GenerateToken"
        /\ Len(out) >= 3 => out[3].to = "reports/" \o r.req.body.reportId
        /\ r.status \in {200, 500}
        /\ r.status = 200 =>
             /\ ok1 /\ ok2 /\ ok3
             /\ r.data.embedToken = o.embed.token
             /\ "embedUrl" \in DOMAIN o.report => r.data.embedUrl = o.report.embedUrl
        /\ ~(ok1 /\ ok2 /\ ok3) => (r.status = 500 /\ r.data = Null)

C26_CallOrder == [][C26_Step]_vars

\* GenerateToken was refused, the report was not looked up and the answer is 500
C26_Witness ==
  /\ resp.route \in EmbedRoutes
  /\ resp.provider # Null
  /\ resp.provider.embed.kind = "status"
  /\ Len(resp.outbound) = 2
  /\ resp.status = 500

\* C27: a generate-embed request that passes the rate check consumes one unit
\* of the caller's quota whether the generation succeeds or fails with 500;
\* the unit is not given back, so after 10 such requests in a window the key
\* is exhausted and the next request in the window is answered 429.
C27_Step ==
  (EmbedStep("part_001") /\ resp'.checked) =>
    LET k == resp'.user.email
        live == k \in DOMAIN embedRequestCounts /\ now <= embedRequestCounts[k].resetTime
        used == IF live THEN embedRequestCounts[k].count ELSE 0
    IN  IF used >= EMBED_RATE_LIMIT
          THEN resp'.status = 429 /\ embedRequestCounts' = embedRequestCounts
          ELSE /\ resp'.status \in {200, 500}
               /\ embedRequestCounts'[k].count = used + 1
               /\ embedRequestCounts'[k].resetTime =
                    IF live THEN embedRequestCounts[k].resetTime ELSE now + EMBED_RATE_WINDOW

C27_FailureConsumesQuota == [][C27_Step]_vars

\* a failed generation used up the last unit of the caller's quota
C27_Witness ==
  /\ resp.route \in EmbedRoutes
  /\ resp.server = "part_001"
  /\ resp.status = 500
  /\ embedRequestCounts[resp.user.email].count = EMBED_RATE_LIMIT

\* C28: for an authenticated caller that is not rate limited, what
\* generate-embed sends to the provider and what it answers is a function of
\* the body and of the provider's answers only, whatever the caller's email,
\* department or isAdmin; no department check is applied to the report.
C28_Step ==
  (resp = NoResponse /\ resp'.route = "POST /api/reports/generate-embed"
     /\ resp'.server = "part_001") =>
    LET r == resp'
        h == r.req.authorization
        b == r.req.body
    IN  (Genuine(h) /\ Complete(b) /\ ~Exhausted(h[2].payload.email)) =>
          /\ r.provider \in ProviderOutcomes
          /\ LET want == generatePowerBIEmbed(b.reportId, b.datasetId,
                                              OrElse(b, "sharedDatasetId", ""), r.provider)
             IN  /\ r.outbound = want.outbound
                 /\ r.data = want.value
                 /\ r.status = IF want.value # Null THEN 200 ELSE 500

C28_CallerIndependent == [][C28_Step]_vars

\* a caller of the Finance department was given the embed details of a report
\* of the Sales department
C28_Witness ==
  /\ resp.route = "POST /api/reports/generate-embed"
  /\ resp.server = "part_001"
  /\ resp.status = 200
  /\ resp.user.department = "Finance"
  /\ ~resp.user.isAdmin
  /\ findIndex(reportsData["Sales"], resp.req.body.reportId) # 0
  /\ findIndex(reportsData["Finance"], resp.req.body.reportId) = 0

(***************************************************************************)
(* Manual login without identifier                                         *)
(***************************************************************************)
\* C29: manual login issues no token for a request that supplies neither an
\* email nor a phone, whatever the password and whatever the registry holds.
C29_NoIdentifierNoToken ==
  (resp.route = "POST /auth/manual-login" /\ Supplied(resp.req) = "") =>
    (resp.status = 401 /\ resp.token = Null)

====
